---- MODULE Spec2Model ----
(***************************************************************************)
(* Model of the refresh engine of facebook-cdn-updater: the run controller *)
(* processUrlUpdates (drain of url_update_queue, sweep of the episodes and *)
(* movies tables, report), the Source Resolver getFacebookVideoUrl, the    *)
(* Validity Prober isUrlValid, the Record Updater updateVideoUrl and the   *)
(* Deferred-Work Store operations addToQueue / markQueueProcessed.         *)
(* One action is one continuation of an async function: the code that runs *)
(* from the completion of one await to the next await.                     *)
(***************************************************************************)
EXTENDS Integers, Sequences, FiniteSets, TLC

(* ------------------------------------------------------------------ *)
(* Bounds of the model                                                *)
(* ------------------------------------------------------------------ *)

\* The budget ceiling.  The code sets 190 (src/telegramBot.js:234); the
\* run logic only compares the counter with it, so the model checks the
\* logic at a ceiling small enough to be exhausted by a handful of records.
MAX_API_CALLS == 2

\* Eligible rows of the episodes and of the movies table.
NumEpisodes == 2

NumMovies == 2

\* Runs started in one behaviour.
MaxRuns == 2

\* Calls of the single-item diagnostic in one behaviour.
MaxDiag == 1

\* Store operations (selects, inserts, updates) that fail in one behaviour.
MaxFaults == 2

\* Calls the store harness makes on the Deferred-Work Store.
MaxStoreOps == 5

\* Calls the prober harness makes on isUrlValid.
MaxProbeCalls == 3

\* Calls the resolver harness makes on getFacebookVideoUrl.
MaxResolverCalls == 3

\* /update commands sent to the chat bot.
MaxChat == 2

\* POST /update-urls requests.
MaxHttp == 2

(* ------------------------------------------------------------------ *)
(* Values                                                             *)
(* ------------------------------------------------------------------ *)

\* JavaScript null (distinct from the sentinel string 'NULL' and from '').
Null == "<null>"

Falsy(x) == x = Null \/ x = ""

TableNames == <<"episodes", "movies">>

Terminal == {"completed", "failed"}

(* ------------------------------------------------------------------ *)
(* Validity Prober                                                    *)
(* ------------------------------------------------------------------ *)

\* What the network can answer to axios.head(url): the final HTTP status
\* after redirects, or a transport error / timeout / too many redirects.
HeadOutcomes == {"200", "204", "404", "500", "timeout", "neterror", "redirects"}

\* A prober that does not recognise the sentinel 'NULL'.
ProbeShortCircuitNoSentinel(url) == Falsy(url)

\* isUrlValid line 268: the early return, no request is made.
ProbeShortCircuit(url) == Falsy(url) \/ url = "NULL"

\* validateStatus of the axios.head call: axios rejects every other status.
ValidateStatus(status) == status = "200"

\* What isUrlValid hands its caller: a boolean, or an exception.
Returns(value) == [threw |-> FALSE, value |-> value]

Throws == [threw |-> TRUE, value |-> FALSE]

\* isUrlValid lines 277-279: the catch.
ProbeCatch == Returns(FALSE)

\* isUrlValid lines 270-279 for a url that passed line 268: axios.head
\* rejects on a transport error and on a status validateStatus refuses.
ProbeResponse(outcome) ==
  IF outcome \in {"timeout", "neterror", "redirects"} THEN ProbeCatch
  ELSE IF ~ValidateStatus(outcome) THEN ProbeCatch
  ELSE Returns(outcome = "200")

\* isUrlValid(url) when the network would answer `outcome`.
isUrlValid(url, outcome) ==
  IF ProbeShortCircuit(url) THEN Returns(FALSE) ELSE ProbeResponse(outcome)

\* Number of requests isUrlValid(url) sends.
ProbeRequests(url) == IF ProbeShortCircuit(url) THEN 0 ELSE 1

(* ------------------------------------------------------------------ *)
(* Source Resolver                                                    *)
(* ------------------------------------------------------------------ *)

\* Error messages of the provider, and for each the lower-cased needles of
\* getFacebookVideoUrl that message.toLowerCase().includes(needle) finds.
ProviderMessages ==
  {"", "Object Does Not Exist", "Missing Permission", "Rate Limit hit", "Unknown error"}

Includes(message, needle) ==
  \/ message = "Object Does Not Exist" /\ needle = "does not exist"
  \/ message = "Missing Permission" /\ needle = "permission"
  \/ message = "Rate Limit hit" /\ needle = "rate limit"

\* `API error: ${message}`
ApiErrorMessage(message) ==
  CASE message = "" -> "API error: "
    [] message = "Object Does Not Exist" -> "API error: Object Does Not Exist"
    [] message = "Missing Permission" -> "API error: Missing Permission"
    [] message = "Rate Limit hit" -> "API error: Rate Limit hit"
    [] OTHER -> "API error: Unknown error"

ProviderCodes == {1, 4, 10, 17, 100, 200}

\* Outcomes of the axios.get on the Graph API:
\*   ok      a 2xx response, data.source a url or absent
\*   err     a response whose data.error is {code, message}
\*   net     no structured error (timeout, DNS, body without error object)
OkResponses == {[kind |-> "ok", source |-> s, code |-> 0, message |-> ""] : s \in {"cdn_new", Null}}

ErrResponses ==
  {[kind |-> "err", source |-> Null, code |-> c, message |-> m] :
     c \in ProviderCodes, m \in ProviderMessages}

NetResponses == {[kind |-> "net", source |-> Null, code |-> 0, message |-> "timeout of 10000ms exceeded"]}

ProviderResponses == OkResponses \cup ErrResponses \cup NetResponses

Failure(error, message) == [success |-> FALSE, url |-> Null, error |-> error, message |-> message]

NoResult == [success |-> FALSE, url |-> Null, error |-> "none", message |-> ""]

\* The value getFacebookVideoUrl returns for a provider response.
ResolveResult(resp) ==
  IF resp.kind = "ok" THEN
    IF ~Falsy(resp.source)
      THEN [success |-> TRUE, url |-> resp.source, error |-> "none", message |-> ""]
      ELSE Failure("no_source", "No source URL found")
  ELSE IF resp.kind = "err" THEN
    IF resp.code = 100 \/ Includes(resp.message, "does not exist")
      THEN Failure("not_found", "Video not found")
    ELSE IF resp.code = 200 \/ resp.code = 10 \/ Includes(resp.message, "permission")
      THEN Failure("permission_denied", "No permission")
    ELSE IF resp.code = 4 \/ resp.code = 17 \/ Includes(resp.message, "rate limit")
      THEN Failure("rate_limit", "Rate limit reached")
    ELSE Failure("api_error", ApiErrorMessage(resp.message))
  ELSE Failure("network_error", resp.message)

\* A resolver whose catch branch does not count the call.
ApiCallsAfterUncountedFailure(resp, n) ==
  IF resp.kind = "ok" THEN n + 1 ELSE n

\* stats.apiCallsUsed after getFacebookVideoUrl returns: the increment of
\* line 292 (the request resolved) or of line 301 (it was rejected).
ApiCallsAfter(resp, n) ==
  IF resp.kind = "ok" THEN n + 1 ELSE n + 1

\* getFacebookVideoUrl: the value it returns and the statistics after it.
getFacebookVideoUrl(resp, st) ==
  [result |-> ResolveResult(resp),
   stats |-> [st EXCEPT !.apiCallsUsed = ApiCallsAfter(resp, @)]]

\* The responses the run model draws from: one per result the callers can
\* tell apart (success, each failure kind).
RunResponses ==
  { [kind |-> "ok", source |-> "cdn_new", code |-> 0, message |-> ""],
    [kind |-> "ok", source |-> Null, code |-> 0, message |-> ""],
    [kind |-> "err", source |-> Null, code |-> 100, message |-> "Unknown error"],
    [kind |-> "err", source |-> Null, code |-> 1, message |-> "Missing Permission"],
    [kind |-> "err", source |-> Null, code |-> 17, message |-> ""],
    [kind |-> "err", source |-> Null, code |-> 1, message |-> "Unknown error"],
    [kind |-> "net", source |-> Null, code |-> 0, message |-> "timeout of 10000ms exceeded"] }

(* ------------------------------------------------------------------ *)
(* Deferred-Work Store: the url_update_queue table                    *)
(* ------------------------------------------------------------------ *)

\* The row an insert of addToQueue creates: id is the serial key, status
\* and created_at take the column defaults ('pending', NOW()); clk is the
\* database clock at the insert.  processed_at 0 is SQL NULL.
NewTask(q, clk, tableName, rowId, videoId, oldUrl, title) ==
  [ id |-> Len(q) + 1,
    table_name |-> tableName,
    row_id |-> rowId,
    facebook_video_id |-> videoId,
    old_url |-> oldUrl,
    video_title |-> title,
    status |-> "pending",
    error_message |-> Null,
    created_at |-> clk,
    processed_at |-> 0 ]

InsertTask(q, clk, tableName, rowId, videoId, oldUrl, title) ==
  Append(q, NewTask(q, clk, tableName, rowId, videoId, oldUrl, title))

\* A select without the status filter.
AnyStatusRows(q) == 1..Len(q)

\* .eq('status', 'pending')
PendingRows(q) == {n \in 1..Len(q) : q[n].status = "pending"}

\* An order that puts the newest row first.
RECURSIVE OrderNewestFirst(_, _)
OrderNewestFirst(q, S) ==
  IF S = {} THEN <<>>
  ELSE LET first == CHOOSE n \in S : \A m \in S : q[n].created_at >= q[m].created_at
       IN <<q[first]>> \o OrderNewestFirst(q, S \ {first})

\* .order('created_at', { ascending: true }): the rows of S, oldest first.
RECURSIVE OrderByCreatedAt(_, _)
OrderByCreatedAt(q, S) ==
  IF S = {} THEN <<>>
  ELSE LET first == CHOOSE n \in S :
                      \A m \in S : q[n].created_at < q[m].created_at
                                   \/ (q[n].created_at = q[m].created_at /\ n <= m)
       IN <<q[first]>> \o OrderByCreatedAt(q, S \ {first})

\* A select without the limit.
LimitIgnored(rows, limit) == rows

\* .limit(limit)
Limit(rows, limit) ==
  IF Len(rows) <= limit THEN rows ELSE SubSeq(rows, 1, limit)

\* The select of processQueue, lines 396-401, with the limit as parameter.
SelectPending(q, limit) == Limit(OrderByCreatedAt(q, PendingRows(q)), limit)

WriteOutcomes == {"ok", "error", "throw"}

\* addToQueue: its return value, the table and the clock after it.  outcome
\* is what the store does with the insert: applies it, answers with an
\* error object, or makes the await reject (caught, line 342).
addToQueue(q, clk, tableName, rowId, videoId, oldUrl, title, outcome) ==
  IF outcome = "ok"
    THEN [added |-> TRUE, clock |-> clk + 1,
          queue |-> InsertTask(q, clk, tableName, rowId, videoId, oldUrl, title)]
    ELSE [added |-> FALSE, clock |-> clk, queue |-> q]

\* The update of markQueueProcessed, lines 350-354: every row whose id is
\* queueId gets the status, the time of the call and the message.
MarkRows(q, queueId, status, clk, errorMsg) ==
  [n \in 1..Len(q) |->
     IF q[n].id = queueId
       THEN [q[n] EXCEPT !.status = status, !.processed_at = clk, !.error_message = errorMsg]
       ELSE q[n]]

\* markQueueProcessed: the table and the clock after it.  A write the store
\* refuses (error object, ignored) or that rejects (caught, line 355)
\* changes nothing and is not reported to the caller.
markQueueProcessed(q, clk, queueId, status, errorMsg, outcome) ==
  IF outcome = "ok"
    THEN [queue |-> MarkRows(q, queueId, status, clk, errorMsg), clock |-> clk + 1]
    ELSE [queue |-> q, clock |-> clk]

(* ------------------------------------------------------------------ *)
(* Record store: the episodes and movies tables                       *)
(* ------------------------------------------------------------------ *)

\* processFreshVideos lines 451-454.
VideoUrlColumn(tableName) == IF tableName = "episodes" THEN "video_url" ELSE "videoUrl"

VideoIdColumn(tableName) ==
  IF tableName = "episodes" THEN "facebook_video_id" ELSE "facebookVideoId"

\* The listing of lines 459-464: rows with a non-null url column, a non-null
\* video id column and a url other than 'NULL', in the table's order.
Eligible(tableName, row) ==
  /\ row[VideoUrlColumn(tableName)] # Null
  /\ row[VideoIdColumn(tableName)] # Null
  /\ row[VideoUrlColumn(tableName)] # "NULL"

ListVideos(tbls, tableName) ==
  SelectSeq(tbls[tableName], LAMBDA row : Eligible(tableName, row))

\* The fields updateVideoUrl writes, lines 362-371; <<>> for an unknown table.
UpdateData(tableName, newUrl) ==
  IF tableName = "episodes" THEN <<"video_url", newUrl>>
  ELSE IF tableName = "movies" THEN <<"videoUrl", newUrl>>
  ELSE <<>>

\* .from(tableName).update(updateData).eq('id', rowId)
WriteUrl(tbls, tableName, rowId, data) ==
  [tbls EXCEPT ![tableName] =
     [n \in 1..Len(@) |-> IF @[n].id = rowId THEN [@[n] EXCEPT ![data[1]] = data[2]] ELSE @[n]]]

\* An updater that counts the record's kind before it looks at the answer
\* of the store.
updateVideoUrlCountingFirst(tbls, st, tableName, rowId, newUrl, outcome) ==
  LET counted == IF tableName = "episodes"
                   THEN [st EXCEPT !.episodesUpdated = @ + 1]
                   ELSE [st EXCEPT !.moviesUpdated = @ + 1]
  IN IF outcome # "ok" THEN [ok |-> FALSE, tables |-> tbls, stats |-> counted]
     ELSE [ ok |-> TRUE,
            tables |-> WriteUrl(tbls, tableName, rowId, UpdateData(tableName, newUrl)),
            stats |-> counted ]

\* updateVideoUrl: its return value, the tables and the statistics after it.
\* outcome is what the store does with the write: applies it, answers with
\* an error object, or makes the await reject.
updateVideoUrl(tbls, st, tableName, rowId, newUrl, outcome) ==
  IF UpdateData(tableName, newUrl) = <<>> THEN [ok |-> FALSE, tables |-> tbls, stats |-> st]
  ELSE IF outcome # "ok" THEN [ok |-> FALSE, tables |-> tbls, stats |-> st]
  ELSE [ ok |-> TRUE,
         tables |-> WriteUrl(tbls, tableName, rowId, UpdateData(tableName, newUrl)),
         stats |-> IF tableName = "episodes"
                     THEN [st EXCEPT !.episodesUpdated = @ + 1]
                     ELSE IF tableName = "movies"
                       THEN [st EXCEPT !.moviesUpdated = @ + 1]
                       ELSE st ]

(* ------------------------------------------------------------------ *)
(* Run Statistics and the report                                      *)
(* ------------------------------------------------------------------ *)

\* The object processUrlUpdates assigns to stats, lines 595-606 (startTime
\* only feeds the duration line of the report and is left out).
ZeroStats ==
  [ totalChecked |-> 0, alreadyValid |-> 0, updated |-> 0, failed |-> 0,
    queued |-> 0, apiCallsUsed |-> 0, episodesUpdated |-> 0, moviesUpdated |-> 0,
    failures |-> [notFound |-> <<>>, permissionDenied |-> <<>>, apiError |-> <<>>] ]

\* A classification that knows the not-found bucket only.
BucketNotFoundOrOther(error) == IF error = "not_found" THEN "notFound" ELSE "apiError"

\* Lines 435-441 and 521-527: the bucket a failed result goes to.
Bucket(error) ==
  IF error = "not_found" THEN "notFound"
  ELSE IF error = "permission_denied" THEN "permissionDenied"
  ELSE "apiError"

\* stats.failed++ and the push of failureInfo.
RecordFailure(st, error, failureInfo) ==
  [st EXCEPT !.failed = @ + 1,
             !.failures[Bucket(error)] = Append(@, failureInfo)]

\* A report that tests the all-still-valid line before the all-updated line.
ClosingLineValidFirst(st) ==
  IF st.queued = 0 /\ st.totalChecked = st.alreadyValid THEN "no_updates_needed"
  ELSE IF st.queued = 0 /\ st.failed = 0 /\ st.updated > 0 THEN "all_updated"
  ELSE IF st.queued > 0 THEN "queued_for_next_run"
  ELSE "none"

\* generateReport lines 581-587: the closing status line.
ClosingLine(st) ==
  IF st.queued = 0 /\ st.failed = 0 /\ st.updated > 0 THEN "all_updated"
  ELSE IF st.queued = 0 /\ st.totalChecked = st.alreadyValid THEN "no_updates_needed"
  ELSE IF st.queued > 0 THEN "queued_for_next_run"
  ELSE "none"

\* generateReport: the numbers it prints and the closing line.
generateReport(st) ==
  [ totalChecked |-> st.totalChecked, alreadyValid |-> st.alreadyValid,
    updated |-> st.updated, failed |-> st.failed, queued |-> st.queued,
    episodesUpdated |-> st.episodesUpdated, moviesUpdated |-> st.moviesUpdated,
    apiCallsUsed |-> st.apiCallsUsed, closing |-> ClosingLine(st) ]

NoReport ==
  [ totalChecked |-> 0, alreadyValid |-> 0, updated |-> 0, failed |-> 0, queued |-> 0,
    episodesUpdated |-> 0, moviesUpdated |-> 0, apiCallsUsed |-> 0, closing |-> "unset" ]

(* ------------------------------------------------------------------ *)
(* State                                                              *)
(* ------------------------------------------------------------------ *)

VARIABLES
  stats,        \* the module-level stats object of urlUpdater
  queue,        \* url_update_queue, rows in insertion order
  clock,        \* the store's clock: NOW() of the next write
  tables,       \* the episodes and movies tables
  run,          \* per run of processUrlUpdates: its position and locals
  runsStarted,  \* runs started so far
  diag,         \* calls of testFacebookVideo in flight
  diagStarted,  \* calls of testFacebookVideo so far
  faults,       \* store operations that failed so far
  diagSince,    \* history: diagnostic calls that returned since the last Reset
  store,        \* the harness: the last call on the store and what it returned
  probe,        \* the harness: the last call of isUrlValid and what it returned
  resolver,     \* the harness: the last call of getFacebookVideoUrl and what it returned
  isProcessing,    \* telegramBot: the busy flag of the /update command
  lastUpdateInfo,  \* telegramBot: what the last /update command recorded
  chat,            \* per /update command: where handleUpdateCommand stands
  http,            \* POST /update-urls: the requests so far and the last reply
  env              \* process.env: SECRET_KEY, and whether Telegram is configured

vars ==
  <<stats, queue, clock, tables, run, runsStarted, diag, diagStarted, faults, diagSince,
    store, probe, resolver, isProcessing, lastUpdateInfo, chat, http, env>>

\* The state of the two triggers and the environment of the process.
frontVars == <<isProcessing, lastUpdateInfo, chat, http, env>>

\* Two runs can be active at a time at most in the model.
Runs == {1, 2}

RowName(prefix, n) ==
  CASE n = 1 -> prefix \o " 1"
    [] n = 2 -> prefix \o " 2"
    [] n = 3 -> prefix \o " 3"
    [] OTHER -> prefix \o " n"

\* The tables as the external system left them: NumEpisodes / NumMovies
\* eligible rows (one with an empty url, one without a title), then rows
\* the listing filters out (null url, 'NULL' url, null video id).
InitEpisodes ==
  [n \in 1..(NumEpisodes + 1) |->
     [ id |-> n,
       title |-> RowName("Episode", n),
       video_url |-> IF n = NumEpisodes + 1 THEN Null ELSE IF n = 1 THEN "" ELSE "cdn_old",
       facebook_video_id |-> RowName("fb-episode", n) ]]

InitMovies ==
  [n \in 1..(NumMovies + 2) |->
     [ id |-> n,
       title |-> IF n = 1 THEN Null ELSE RowName("Movie", n),
       videoUrl |-> IF n = NumMovies + 1 THEN "NULL" ELSE "cdn_old",
       facebookVideoId |-> IF n = NumMovies + 2 THEN Null ELSE RowName("fb-movie", n) ]]

IdleRun ==
  [ pc |-> "idle",
    queueItems |-> <<>>,   \* processQueue: the rows the select returned
    q |-> 0,               \* processQueue: index of the item in hand
    t |-> 0,               \* processFreshVideos: index of the table in hand
    videos |-> <<>>,       \* processFreshVideos: the listing of that table
    i |-> 0,               \* processFreshVideos: loop index i (from 1)
    j |-> 0,               \* processFreshVideos: loop index j of the enqueue loop
    result |-> NoResult,   \* the last value getFacebookVideoUrl returned
    updated |-> FALSE,     \* the value updateVideoUrl returned for the item
    report |-> NoReport,   \* the report generateReport built
    \* history, not read by any action:
    startPending |-> 0,    \* pending tasks in the store at Reset
    enqueueFailed |-> FALSE,  \* an addToQueue of this run returned false
    listFailed |-> FALSE ]    \* a listing of this run returned an error

\* The store harness: the last operation called, the limit and the rows of
\* the last drain, the number of calls so far.
NoStoreCall == [op |-> "none", limit |-> 0, rows |-> <<>>, ops |-> 0]

\* The resolver harness: where the last call of getFacebookVideoUrl stands,
\* the provider's response to it, what it handed back, and the calls so far.
NoResolverCall ==
  [ pc |-> "idle",
    resp |-> [kind |-> "none", source |-> Null, code |-> 0, message |-> ""],
    result |-> NoResult, calls |-> 0 ]

\* The prober harness: the url of the last call of isUrlValid, where the
\* call stands, the requests it sent, the network's answer, what it handed
\* back, and the calls and requests so far.
NoProbeCall ==
  [ url |-> Null, pc |-> "idle", requests |-> 0, outcome |-> "none",
    returned |-> Returns(FALSE), calls |-> 0, sent |-> 0 ]

\* handleUpdateCommand has not been called for a command.
IdleChat == [pc |-> "none", run |-> 0]

\* lastUpdateInfo = null, line 8.
NoUpdateInfo == [set |-> FALSE, success |-> FALSE]

\* The /update commands of the model.
Cmds == 1..MaxChat

\* No POST /update-urls request was made. Otherwise: the requests so far,
\* the x-secret-key header of the last one, the response it got and the
\* run it started.
NoHttp == [requests |-> 0, header |-> Null, status |-> "none", run |-> 0]

\* The values of the x-secret-key header and of SECRET_KEY; Null is an
\* absent header, an unset variable (undefined in the code).
SecretValues == {Null, "s3cret", "guess"}

\* A configured deployment: SECRET_KEY set, TELEGRAM_BOT_TOKEN and
\* TELEGRAM_CHAT_ID set.
ConfiguredEnv == [SECRET_KEY |-> "s3cret", telegram |-> TRUE]

\* url_update_queue is durable and the process is not: a process starts
\* with the table empty, or with the task an earlier process left pending
\* when its sweep ran out of budget at the first movie.
InitQueues ==
  { <<>>,
    InsertTask(<<>>, 1, "movies", InitMovies[1].id, InitMovies[1].facebookVideoId,
               InitMovies[1].videoUrl, InitMovies[1].title) }

Init ==
  /\ stats = ZeroStats
  /\ queue \in InitQueues
  /\ clock = Len(queue) + 1
  /\ tables = [episodes |-> InitEpisodes, movies |-> InitMovies]
  /\ run = [r \in Runs |-> IdleRun]
  /\ runsStarted = 0
  /\ diag = 0
  /\ diagStarted = 0
  /\ faults = 0
  /\ diagSince = 0
  /\ store = NoStoreCall
  /\ probe = NoProbeCall
  /\ resolver = NoResolverCall
  /\ isProcessing = FALSE
  /\ lastUpdateInfo = NoUpdateInfo
  /\ chat = [c \in Cmds |-> IdleChat]
  /\ http = NoHttp
  /\ env = ConfiguredEnv

ActiveRuns == {r \in Runs : run[r].pc # "idle"}

(* ------------------------------------------------------------------ *)
(* Control flow of a run between two awaits                           *)
(* ------------------------------------------------------------------ *)

\* A run's locals and the statistics, threaded through the code that runs
\* without suspension.
Ctx(rn, st) == [rn |-> rn, st |-> st]

\* A budget test that lets one call too many through.
BudgetExhaustedOffByOne(st) == st.apiCallsUsed > MAX_API_CALLS

\* The test of lines 411 and 476: stats.apiCallsUsed >= MAX_API_CALLS.
BudgetExhausted(st) == st.apiCallsUsed >= MAX_API_CALLS

\* A run that builds no report and awaits nothing that returns.
ToReportHanging(c) == Ctx([c.rn EXCEPT !.pc = "report_wait"], c.st)

\* processUrlUpdates lines 626-634: generateReport(), then the await of
\* sendTelegram(report).
ToReport(c) ==
  Ctx([c.rn EXCEPT !.pc = "report_notify", !.report = generateReport(c.st)], c.st)

\* processFreshVideos line 456: the loop over the tables at table t; past
\* the last table the function returns to processUrlUpdates.
SweepTable(c, t) ==
  IF t > Len(TableNames) THEN ToReport(c)
  ELSE Ctx([c.rn EXCEPT !.pc = "f_list", !.t = t, !.videos = <<>>, !.i = 0, !.j = 0], c.st)

\* processFreshVideos lines 473-506: the loop over the listing at index i,
\* up to the next await (addToQueue, the request of isUrlValid, or the
\* request of getFacebookVideoUrl when isUrlValid returns without one).
SweepRecord(c, i) ==
  IF i > Len(c.rn.videos) THEN SweepTable(c, c.rn.t + 1)
  ELSE IF BudgetExhausted(c.st)
    THEN Ctx([c.rn EXCEPT !.pc = "f_enqueue", !.i = i, !.j = i], c.st)
  ELSE LET st1 == [c.st EXCEPT !.totalChecked = @ + 1]
           currentUrl == c.rn.videos[i][VideoUrlColumn(TableNames[c.rn.t])]
       IN IF ProbeShortCircuit(currentUrl)
            THEN Ctx([c.rn EXCEPT !.pc = "f_resolve", !.i = i], st1)
            ELSE Ctx([c.rn EXCEPT !.pc = "f_probe", !.i = i], st1)

\* An orchestrator that starts the sweep whatever the budget.
AfterQueueAlwaysSweeps(c) == SweepTable(c, 1)

\* processUrlUpdates lines 618-624: after processQueue.
AfterQueue(c) ==
  IF c.st.apiCallsUsed < MAX_API_CALLS THEN SweepTable(c, 1) ELSE ToReport(c)

\* A drain that resolves no task.
DrainItemNoDrain(c, k) == AfterQueue(c)

\* A drain that gives up after an item that failed to resolve.
DrainItemAbortOnFailure(c, k) ==
  IF k > 1 /\ ~c.rn.result.success THEN Ctx([c.rn EXCEPT !.pc = "error_notify"], c.st)
  ELSE IF k > Len(c.rn.queueItems) THEN AfterQueue(c)
  ELSE IF BudgetExhausted(c.st) THEN AfterQueue(c)
  ELSE Ctx([c.rn EXCEPT !.pc = "q_resolve", !.q = k], c.st)

\* processQueue lines 410-417: the loop over queueItems at item k.
DrainItem(c, k) ==
  IF k > Len(c.rn.queueItems) THEN AfterQueue(c)
  ELSE IF BudgetExhausted(c.st) THEN AfterQueue(c)
  ELSE Ctx([c.rn EXCEPT !.pc = "q_resolve", !.q = k], c.st)

\* A catch that starts the statistics over.
ToErrorLosingStats(c) == Ctx([c.rn EXCEPT !.pc = "error_notify"], ZeroStats)

\* processUrlUpdates lines 636-643: the catch, then the await of the error
\* notification.
ToError(c) == Ctx([c.rn EXCEPT !.pc = "error_notify"], c.st)

(* ------------------------------------------------------------------ *)
(* Actions of a run                                                   *)
(* ------------------------------------------------------------------ *)

SelectOutcomes == {"ok", "error", "throw"}

\* The store fails an operation only while the fault bound allows it.
StoreOutcome(outcome) ==
  /\ outcome # "ok" => faults < MaxFaults
  /\ faults' = IF outcome = "ok" THEN faults ELSE faults + 1

\* processUrlUpdates lines 594-613: Reset, then the await of the run-start
\* notification.
Trigger(r) ==
  /\ run[r].pc = "idle"
  /\ runsStarted < MaxRuns
  /\ runsStarted' = runsStarted + 1
  /\ stats' = ZeroStats
  /\ diagSince' = 0
  /\ run' = [run EXCEPT ![r] = [IdleRun EXCEPT !.pc = "start_notify",
                                               !.startPending = Cardinality(PendingRows(queue))]]
  /\ UNCHANGED <<faults, queue, clock, tables, diag, diagStarted, store, probe, resolver>>

\* What the Telegram API does with the post of sendTelegram; without
\* TG_TOKEN or TG_CHAT_ID no request is made.
PushOutcomes(configured) == IF configured THEN {"ok", "failed"} ELSE {"none"}

\* A sendTelegram that lets the rejection of axios.post through.
TelegramNoCatch(res) == res

\* sendTelegram lines 262-264: the catch.
TelegramCatch(res) == IF res.threw THEN Returns(FALSE) ELSE res

\* sendTelegram, lines 249-265: what it hands its caller (undefined, here
\* FALSE, or an exception).
sendTelegram(configured, outcome) ==
  IF ~configured THEN Returns(FALSE)
  ELSE TelegramCatch(IF outcome = "ok" THEN Returns(FALSE) ELSE Throws)

\* A failed push counts as a fault, within the fault bound.
PushFault(outcome) ==
  /\ outcome = "failed" => faults < MaxFaults
  /\ faults' = IF outcome = "failed" THEN faults + 1 ELSE faults

\* The /update command, if any, that awaits run r at line 95.
Awaiting(r) == {c \in Cmds : chat[c].pc = "running" /\ chat[c].run = r}

\* processUrlUpdates of run r settled. The HTTP trigger does nothing more
\* (lines 38-42); handleUpdateCommand goes on to line 97 when the promise
\* resolved and to line 105 when it rejected, up to its next sendMessage.
EndRun(r, rejected) ==
  /\ run' = [run EXCEPT ![r] = IdleRun]
  /\ chat' = [c \in Cmds |->
               IF c \in Awaiting(r)
                 THEN [chat[c] EXCEPT !.pc = IF rejected THEN "error_msg" ELSE "done_msg"]
                 ELSE chat[c]]
  /\ lastUpdateInfo' = IF Awaiting(r) = {} \/ rejected THEN lastUpdateInfo
                        ELSE [set |-> TRUE, success |-> TRUE]

\* processUrlUpdates line 613: sendTelegram returned; line 613 is outside
\* the try, so an exception would reject processUrlUpdates; otherwise
\* processQueue starts its select, line 396.
StartNotified(r) ==
  /\ run[r].pc = "start_notify"
  /\ \E outcome \in PushOutcomes(env.telegram) :
       LET s == sendTelegram(env.telegram, outcome)
       IN /\ PushFault(outcome)
          /\ IF s.threw
               THEN EndRun(r, TRUE)
               ELSE /\ run' = [run EXCEPT ![r].pc = "q_select"]
                    /\ UNCHANGED <<chat, lastUpdateInfo>>
  /\ UNCHANGED <<stats, queue, clock, tables, runsStarted, diag, diagStarted, diagSince,
                 store, probe, resolver, isProcessing, http, env>>

\* processQueue lines 396-417: the select returned.
QueueSelected(r) ==
  /\ run[r].pc = "q_select"
  /\ \E outcome \in SelectOutcomes :
       LET items == IF outcome = "ok" THEN SelectPending(queue, MAX_API_CALLS) ELSE <<>>
           c0 == Ctx([run[r] EXCEPT !.queueItems = items], stats)
           c1 == IF outcome = "throw" THEN ToError(c0)
                 ELSE IF outcome = "error" \/ Len(items) = 0 THEN AfterQueue(c0)
                 ELSE DrainItem(c0, 1)
       IN /\ StoreOutcome(outcome)
          /\ run' = [run EXCEPT ![r] = c1.rn]
          /\ stats' = c1.st
  /\ UNCHANGED <<queue, clock, tables, runsStarted, diag, diagStarted, diagSince, store, probe, resolver, frontVars>>

\* processQueue lines 417-430: getFacebookVideoUrl returned for the item;
\* next await is updateVideoUrl (success) or markQueueProcessed (failure).
QueueResolved(r) ==
  /\ run[r].pc = "q_resolve"
  /\ \E resp \in RunResponses :
       LET g == getFacebookVideoUrl(resp, stats)
       IN /\ stats' = g.stats
          /\ run' = [run EXCEPT ![r].result = g.result,
                                ![r].updated = FALSE,
                                ![r].pc = IF g.result.success THEN "q_update" ELSE "q_mark"]
  /\ UNCHANGED <<faults, queue, clock, tables, runsStarted, diag, diagStarted, diagSince, store, probe, resolver, frontVars>>

\* processQueue lines 420-426: updateVideoUrl returned; next await is
\* markQueueProcessed.
QueueUpdated(r) ==
  /\ run[r].pc = "q_update"
  /\ \E outcome \in WriteOutcomes :
       LET item == run[r].queueItems[run[r].q]
           u == updateVideoUrl(tables, stats, item.table_name, item.row_id,
                               run[r].result.url, outcome)
       IN /\ StoreOutcome(outcome)
          /\ tables' = u.tables
          /\ stats' = u.stats
          /\ run' = [run EXCEPT ![r].updated = u.ok, ![r].pc = "q_mark"]
  /\ UNCHANGED <<queue, clock, runsStarted, diag, diagStarted, diagSince, store, probe, resolver, frontVars>>

\* A drain that marks a task by the resolver's result alone.
MarkStatusByResolveOnly(rn) == IF rn.result.success THEN "completed" ELSE "failed"

\* The arguments processQueue passes to markQueueProcessed, lines 422-430.
MarkStatus(rn) == IF rn.result.success /\ rn.updated THEN "completed" ELSE "failed"

MarkMessage(rn) ==
  IF rn.result.success
    THEN IF rn.updated THEN Null ELSE "Database update failed"
    ELSE rn.result.message

\* Lines 433 and 519: the entry pushed to a failure bucket.
QueueFailureInfo(item) ==
  [id |-> item.facebook_video_id,
   title |-> IF Falsy(item.video_title) THEN "Unknown" ELSE item.video_title]

VideoFailureInfo(tableName, video) ==
  [id |-> video[VideoIdColumn(tableName)], title |-> video.title]

\* A drain that counts nothing for a task whose record update failed.
QueueItemStatsSilentApplyFailure(st, rn) ==
  IF rn.result.success
    THEN IF rn.updated THEN [st EXCEPT !.updated = @ + 1] ELSE st
    ELSE RecordFailure(st, rn.result.error, QueueFailureInfo(rn.queueItems[rn.q]))

\* The statistics after an item of the queue, lines 423-441.
QueueItemStats(st, rn) ==
  IF rn.result.success
    THEN IF rn.updated THEN [st EXCEPT !.updated = @ + 1] ELSE [st EXCEPT !.failed = @ + 1]
    ELSE RecordFailure(st, rn.result.error, QueueFailureInfo(rn.queueItems[rn.q]))

\* processQueue lines 422-445: markQueueProcessed returned (the write was
\* applied, or it failed and markQueueProcessed swallowed the failure);
\* the counters are bumped and the loop goes to the next item.
QueueMarked(r) ==
  /\ run[r].pc = "q_mark"
  /\ \E outcome \in WriteOutcomes :
       LET item == run[r].queueItems[run[r].q]
           st1 == QueueItemStats(stats, run[r])
           m == markQueueProcessed(queue, clock, item.id, MarkStatus(run[r]),
                                   MarkMessage(run[r]), outcome)
           c1 == DrainItem(Ctx(run[r], st1), run[r].q + 1)
       IN /\ StoreOutcome(outcome)
          /\ queue' = m.queue
          /\ clock' = m.clock
          /\ stats' = c1.st
          /\ run' = [run EXCEPT ![r] = c1.rn]
  /\ UNCHANGED <<tables, runsStarted, diag, diagStarted, diagSince, store, probe, resolver, frontVars>>

\* processFreshVideos lines 459-473: the listing of table t returned.
Listed(r) ==
  /\ run[r].pc = "f_list"
  /\ \E outcome \in SelectOutcomes :
       LET videos == IF outcome = "ok" THEN ListVideos(tables, TableNames[run[r].t]) ELSE <<>>
           c0 == Ctx([run[r] EXCEPT !.videos = videos,
                                    !.listFailed = @ \/ outcome # "ok"], stats)
           c1 == IF outcome = "throw" THEN ToError(c0)
                 ELSE IF outcome = "error" \/ Len(videos) = 0 THEN SweepTable(c0, run[r].t + 1)
                 ELSE SweepRecord(c0, 1)
       IN /\ StoreOutcome(outcome)
          /\ run' = [run EXCEPT ![r] = c1.rn]
          /\ stats' = c1.st
  /\ UNCHANGED <<queue, clock, tables, runsStarted, diag, diagStarted, diagSince, store, probe, resolver, frontVars>>

\* processFreshVideos lines 479-490: addToQueue returned for videos[j].
Enqueued(r) ==
  /\ run[r].pc = "f_enqueue"
  /\ \E outcome \in WriteOutcomes :
       LET tableName == TableNames[run[r].t]
           v == run[r].videos[run[r].j]
           a == addToQueue(queue, clock, tableName, v.id, v[VideoIdColumn(tableName)],
                           v[VideoUrlColumn(tableName)], v.title, outcome)
           st1 == IF a.added THEN [stats EXCEPT !.queued = @ + 1] ELSE stats
           rn1 == [run[r] EXCEPT !.enqueueFailed = @ \/ ~a.added]
           c1 == IF run[r].j + 1 > Len(run[r].videos)
                   THEN SweepTable(Ctx(rn1, st1), run[r].t + 1)
                   ELSE Ctx([rn1 EXCEPT !.j = @ + 1], st1)
       IN /\ StoreOutcome(outcome)
          /\ queue' = a.queue
          /\ clock' = a.clock
          /\ stats' = c1.st
          /\ run' = [run EXCEPT ![r] = c1.rn]
  /\ UNCHANGED <<tables, runsStarted, diag, diagStarted, diagSince, store, probe, resolver, frontVars>>

\* A valid record that is charged one Graph API call.
AlreadyValidSpendingCall(st) ==
  [st EXCEPT !.alreadyValid = @ + 1, !.apiCallsUsed = @ + 1]

\* processFreshVideos lines 499-503: the branch of a valid URL.
AlreadyValid(st) == [st EXCEPT !.alreadyValid = @ + 1]

\* processFreshVideos lines 496-506: the request of isUrlValid returned.
Probed(r) ==
  /\ run[r].pc = "f_probe"
  /\ \E outcome \in HeadOutcomes :
       LET currentUrl == run[r].videos[run[r].i][VideoUrlColumn(TableNames[run[r].t])]
           isValid == isUrlValid(currentUrl, outcome)
           c1 == IF isValid.threw THEN ToError(Ctx(run[r], stats))
                 ELSE IF isValid.value
                   THEN SweepRecord(Ctx(run[r], AlreadyValid(stats)),
                                    run[r].i + 1)
                   ELSE Ctx([run[r] EXCEPT !.pc = "f_resolve"], stats)
       IN /\ stats' = c1.st
          /\ run' = [run EXCEPT ![r] = c1.rn]
  /\ UNCHANGED <<faults, queue, clock, tables, runsStarted, diag, diagStarted, diagSince, store, probe, resolver, frontVars>>

\* processFreshVideos lines 506-530: getFacebookVideoUrl returned for
\* videos[i]; success awaits updateVideoUrl, failure is counted at once.
FreshResolved(r) ==
  /\ run[r].pc = "f_resolve"
  /\ \E resp \in RunResponses :
       LET g == getFacebookVideoUrl(resp, stats)
           result == g.result
           tableName == TableNames[run[r].t]
           st1 == g.stats
           rn1 == [run[r] EXCEPT !.result = result, !.updated = FALSE]
           c1 == IF result.success
                   THEN Ctx([rn1 EXCEPT !.pc = "f_update"], st1)
                   ELSE SweepRecord(
                          Ctx(rn1, RecordFailure(st1, result.error,
                                     VideoFailureInfo(tableName, run[r].videos[run[r].i]))),
                          run[r].i + 1)
       IN /\ stats' = c1.st
          /\ run' = [run EXCEPT ![r] = c1.rn]
  /\ UNCHANGED <<faults, queue, clock, tables, runsStarted, diag, diagStarted, diagSince, store, probe, resolver, frontVars>>

\* processFreshVideos lines 509-515: updateVideoUrl returned for videos[i].
FreshUpdated(r) ==
  /\ run[r].pc = "f_update"
  /\ \E outcome \in WriteOutcomes :
       LET tableName == TableNames[run[r].t]
           video == run[r].videos[run[r].i]
           u == updateVideoUrl(tables, stats, tableName, video.id, run[r].result.url, outcome)
           st1 == IF u.ok THEN [u.stats EXCEPT !.updated = @ + 1]
                          ELSE [u.stats EXCEPT !.failed = @ + 1]
           c1 == SweepRecord(Ctx([run[r] EXCEPT !.updated = u.ok], st1), run[r].i + 1)
       IN /\ StoreOutcome(outcome)
          /\ tables' = u.tables
          /\ stats' = c1.st
          /\ run' = [run EXCEPT ![r] = c1.rn]
  /\ UNCHANGED <<queue, clock, runsStarted, diag, diagStarted, diagSince, store, probe, resolver, frontVars>>

\* processUrlUpdates line 634: sendTelegram(report) returned and the run
\* ends; line 634 is inside the try, so an exception would go to the catch.
ReportNotified(r) ==
  /\ run[r].pc = "report_notify"
  /\ \E outcome \in PushOutcomes(env.telegram) :
       LET s == sendTelegram(env.telegram, outcome)
       IN /\ PushFault(outcome)
          /\ IF s.threw
               THEN /\ run' = [run EXCEPT ![r] = ToError(Ctx(run[r], stats)).rn]
                    /\ UNCHANGED <<chat, lastUpdateInfo>>
               ELSE EndRun(r, FALSE)
  /\ UNCHANGED <<stats, queue, clock, tables, runsStarted, diag, diagStarted, diagSince,
                 store, probe, resolver, isProcessing, http, env>>

\* processUrlUpdates line 643: the error notification returned and the run
\* ends; an exception here would reject processUrlUpdates.
ErrorNotified(r) ==
  /\ run[r].pc = "error_notify"
  /\ \E outcome \in PushOutcomes(env.telegram) :
       LET s == sendTelegram(env.telegram, outcome)
       IN /\ PushFault(outcome)
          /\ EndRun(r, s.threw)
  /\ UNCHANGED <<stats, queue, clock, tables, runsStarted, diag, diagStarted, diagSince,
                 store, probe, resolver, isProcessing, http, env>>

(* ------------------------------------------------------------------ *)
(* The single-item diagnostic                                         *)
(* ------------------------------------------------------------------ *)

\* GET /test-video/:videoId calls testFacebookVideo, which awaits
\* getFacebookVideoUrl: the request is sent.
DiagCall ==
  /\ diagStarted < MaxDiag
  /\ diagStarted' = diagStarted + 1
  /\ diag' = diag + 1
  /\ UNCHANGED <<faults, stats, queue, clock, tables, run, runsStarted, diagSince, store, probe, resolver, frontVars>>

\* getFacebookVideoUrl returned to testFacebookVideo.
DiagReturn ==
  /\ diag > 0
  /\ \E resp \in RunResponses :
       stats' = [stats EXCEPT !.apiCallsUsed = ApiCallsAfter(resp, @)]
  /\ diag' = diag - 1
  /\ diagSince' = diagSince + 1
  /\ UNCHANGED <<faults, queue, clock, tables, run, runsStarted, diagStarted, store, probe, resolver, frontVars>>

(* ------------------------------------------------------------------ *)
(* The program with one run at a time                                 *)
(* ------------------------------------------------------------------ *)

\* The trigger fires when no run is active (the 24-hour cadence).
SeqTrigger == ActiveRuns = {} /\ Trigger(1) /\ UNCHANGED frontVars

RunStep(r) ==
  \/ StartNotified(r)
  \/ QueueSelected(r)
  \/ QueueResolved(r)
  \/ QueueUpdated(r)
  \/ QueueMarked(r)
  \/ Listed(r)
  \/ Enqueued(r)
  \/ Probed(r)
  \/ FreshResolved(r)
  \/ FreshUpdated(r)
  \/ ReportNotified(r)
  \/ ErrorNotified(r)

Next ==
  \/ SeqTrigger
  \/ \E r \in Runs : RunStep(r)
  \/ DiagCall
  \/ DiagReturn

Spec == Init /\ [][Next]_vars

(* ------------------------------------------------------------------ *)
(* One run at a time, every awaited operation returning               *)
(* ------------------------------------------------------------------ *)

NextLive ==
  \/ SeqTrigger
  \/ \E r \in Runs : RunStep(r)

\* Every await of a run is an I/O operation (Telegram, the store, the CDN,
\* the Graph API) that returns or times out, after which the event loop
\* resumes the run: a run that can take its next step eventually takes it.
SpecLive == Init /\ [][NextLive]_vars /\ \A r \in Runs : WF_vars(RunStep(r))

(* ------------------------------------------------------------------ *)
(* Repeated runs on a store that answers every read and write         *)
(* ------------------------------------------------------------------ *)

\* The queue an earlier process left: its sweep ran out of budget at the
\* second episode and deferred it and the two movies.
LeftoverQueue ==
  LET q1 == InsertTask(<<>>, 1, "episodes", InitEpisodes[2].id,
                       InitEpisodes[2].facebook_video_id, InitEpisodes[2].video_url,
                       InitEpisodes[2].title)
      q2 == InsertTask(q1, 2, "movies", InitMovies[1].id, InitMovies[1].facebookVideoId,
                       InitMovies[1].videoUrl, InitMovies[1].title)
  IN InsertTask(q2, 3, "movies", InitMovies[2].id, InitMovies[2].facebookVideoId,
                InitMovies[2].videoUrl, InitMovies[2].title)

\* The tables that process left: it refreshed the first episode before its
\* budget ran out.
LeftoverTables ==
  WriteUrl([episodes |-> InitEpisodes, movies |-> InitMovies], "episodes",
           InitEpisodes[1].id, UpdateData("episodes", "cdn_new"))

\* No store operation and no push fails from here on (the faults are spent).
InitRepeat ==
  /\ stats = ZeroStats
  /\ queue = LeftoverQueue
  /\ clock = Len(queue) + 1
  /\ tables = LeftoverTables
  /\ run = [r \in Runs |-> IdleRun]
  /\ runsStarted = 0
  /\ diag = 0
  /\ diagStarted = 0
  /\ faults = MaxFaults
  /\ diagSince = 0
  /\ store = NoStoreCall
  /\ probe = NoProbeCall
  /\ resolver = NoResolverCall
  /\ isProcessing = FALSE
  /\ lastUpdateInfo = NoUpdateInfo
  /\ chat = [c \in Cmds |-> IdleChat]
  /\ http = NoHttp
  /\ env = ConfiguredEnv

\* The steps of a run when no listing throws: the catch of
\* processUrlUpdates is never entered.
RepeatStep(r) ==
  \/ StartNotified(r)
  \/ QueueSelected(r)
  \/ QueueResolved(r)
  \/ QueueUpdated(r)
  \/ QueueMarked(r)
  \/ Listed(r)
  \/ Enqueued(r)
  \/ Probed(r)
  \/ FreshResolved(r)
  \/ FreshUpdated(r)
  \/ ReportNotified(r)

NextRepeat ==
  \/ SeqTrigger
  \/ \E r \in Runs : RepeatStep(r)

\* The trigger fires again after every run (the 24-hour cadence of the
\* external cron), and every awaited operation of a run returns.
SpecRepeat ==
  /\ InitRepeat
  /\ [][NextRepeat]_vars
  /\ WF_vars(SeqTrigger)
  /\ \A r \in Runs : WF_vars(RepeatStep(r))

(* ------------------------------------------------------------------ *)
(* The two triggers                                                   *)
(* ------------------------------------------------------------------ *)

\* The slot of the model the next run takes.
FreeRun == CHOOSE r \in Runs : run[r].pc = "idle" /\ \A o \in Runs : run[o].pc = "idle" => r <= o

\* A busy check that never rejects.
BusyNever(flag) == FALSE

\* handleUpdateCommand line 84: the busy check reads isProcessing.
Busy(flag) == flag

\* handleUpdateCommand lines 84-91 for the next /update command of an
\* authorized sender: the busy check, then the "already running" reply, or
\* isProcessing = true and the "started" reply.
ChatUpdate(c) ==
  /\ chat[c].pc = "none"
  /\ \A o \in Cmds : o < c => chat[o].pc # "none"
  /\ IF Busy(isProcessing)
       THEN /\ chat' = [chat EXCEPT ![c].pc = "reject_msg"]
            /\ UNCHANGED isProcessing
       ELSE /\ chat' = [chat EXCEPT ![c].pc = "start_msg"]
            /\ isProcessing' = TRUE
  /\ UNCHANGED <<stats, queue, clock, tables, run, runsStarted, diag, diagStarted, faults,
                 diagSince, store, probe, resolver, lastUpdateInfo, http, env>>

\* handleUpdateCommand lines 85-86: the "already running" reply was sent
\* (sendMessage catches its own errors); the handler returns.
ChatRejected(c) ==
  /\ chat[c].pc = "reject_msg"
  /\ chat' = [chat EXCEPT ![c].pc = "returned"]
  /\ UNCHANGED <<stats, queue, clock, tables, run, runsStarted, diag, diagStarted, faults,
                 diagSince, store, probe, resolver, isProcessing, lastUpdateInfo, http, env>>

\* handleUpdateCommand lines 91-95: the "started" reply was sent; the
\* handler calls processUrlUpdates, which runs to its first await.
ChatStarted(c) ==
  /\ chat[c].pc = "start_msg"
  /\ \E r \in Runs : run[r].pc = "idle"
  /\ Trigger(FreeRun)
  /\ chat' = [chat EXCEPT ![c] = [pc |-> "running", run |-> FreeRun]]
  /\ UNCHANGED <<isProcessing, lastUpdateInfo, http, env>>

\* handleUpdateCommand lines 102-115: the closing reply was sent (line 102,
\* or line 106 followed by lines 108-112); the finally clears the flag.
ChatReturned(c) ==
  /\ chat[c].pc \in {"done_msg", "error_msg"}
  /\ chat' = [chat EXCEPT ![c].pc = "returned"]
  /\ lastUpdateInfo' = IF chat[c].pc = "error_msg"
                         THEN [set |-> TRUE, success |-> FALSE]
                         ELSE lastUpdateInfo
  /\ isProcessing' = FALSE
  /\ UNCHANGED <<stats, queue, clock, tables, run, runsStarted, diag, diagStarted, faults,
                 diagSince, store, probe, resolver, http, env>>

\* A handler that takes every request.
UpdateUrlsAuthorizedAlways(secretKey, configured) == TRUE

\* A handler that answers 401 while a run is active.
UpdateUrlsAuthorizedWhenIdle(secretKey, configured) ==
  ~(secretKey # configured) /\ ActiveRuns = {}

\* server.js line 25: the header is compared with SECRET_KEY by !==.
UpdateUrlsAuthorized(secretKey, configured) == ~(secretKey # configured)

\* POST /update-urls, server.js lines 23-39: 401 for a header that differs
\* from SECRET_KEY; otherwise the 'started' response is sent, then
\* processUrlUpdates is called and runs to its first await.
UpdateUrls(secretKey) ==
  /\ http.requests < MaxHttp
  /\ IF UpdateUrlsAuthorized(secretKey, env.SECRET_KEY)
       THEN /\ \E r \in Runs : run[r].pc = "idle"
            /\ http' = [requests |-> http.requests + 1, header |-> secretKey,
                        status |-> "started", run |-> FreeRun]
            /\ Trigger(FreeRun)
       ELSE /\ http' = [requests |-> http.requests + 1, header |-> secretKey,
                        status |-> "401", run |-> 0]
            /\ UNCHANGED <<stats, queue, clock, tables, run, runsStarted, diag, diagStarted,
                           faults, diagSince, store, probe, resolver>>
  /\ UNCHANGED <<isProcessing, lastUpdateInfo, chat, env>>

ChatStep(c) ==
  \/ ChatStarted(c)
  \/ ChatReturned(c)

(* ------------------------------------------------------------------ *)
(* The program behind its triggers, one run at a time                 *)
(* ------------------------------------------------------------------ *)

\* Two deployments: the configured one, and one with neither SECRET_KEY nor
\* the Telegram variables set.
Environments == {ConfiguredEnv, [SECRET_KEY |-> Null, telegram |-> FALSE]}

InitFront ==
  /\ stats = ZeroStats
  /\ queue = <<>>
  /\ clock = 1
  /\ tables = [episodes |-> InitEpisodes, movies |-> InitMovies]
  /\ run = [r \in Runs |-> IdleRun]
  /\ runsStarted = 0
  /\ diag = 0
  /\ diagStarted = 0
  /\ faults = MaxFaults - 1
  /\ diagSince = 0
  /\ store = NoStoreCall
  /\ probe = NoProbeCall
  /\ resolver = NoResolverCall
  /\ isProcessing = FALSE
  /\ lastUpdateInfo = NoUpdateInfo
  /\ chat = [c \in Cmds |-> IdleChat]
  /\ http = NoHttp
  /\ env \in Environments

\* The cron job posts when nothing is running.
SeqUpdateUrls ==
  /\ ActiveRuns = {}
  /\ ~isProcessing
  /\ \E secretKey \in SecretValues : UpdateUrls(secretKey)

\* An /update command arrives when nothing is running.
SeqChatUpdate(c) ==
  /\ ActiveRuns = {}
  /\ ~isProcessing
  /\ ChatUpdate(c)

NextFront ==
  \/ SeqUpdateUrls
  \/ \E c \in Cmds : SeqChatUpdate(c)
  \/ \E c \in Cmds : ChatStep(c)
  \/ \E r \in Runs : RunStep(r)

SpecFront == InitFront /\ [][NextFront]_vars

(* ------------------------------------------------------------------ *)
(* The program behind its triggers, requests arriving at any time     *)
(* ------------------------------------------------------------------ *)

\* A small deployment, configured: the task an earlier process left
\* pending for a movie, and tables in which no row is listed any more (no
\* episode; the movies without a url or without a video id).
InitOverlap ==
  /\ stats = ZeroStats
  /\ queue \in InitQueues \ {<<>>}
  /\ clock = Len(queue) + 1
  /\ tables = [episodes |-> <<>>,
               movies |-> SelectSeq(InitMovies, LAMBDA row : ~Eligible("movies", row))]
  /\ run = [r \in Runs |-> IdleRun]
  /\ runsStarted = 0
  /\ diag = 0
  /\ diagStarted = 0
  /\ faults = MaxFaults - 1
  /\ diagSince = 0
  /\ store = NoStoreCall
  /\ probe = NoProbeCall
  /\ resolver = NoResolverCall
  /\ isProcessing = FALSE
  /\ lastUpdateInfo = NoUpdateInfo
  /\ chat = [c \in Cmds |-> IdleChat]
  /\ http = NoHttp
  /\ env = ConfiguredEnv

\* The steps of a run that finds no record to sweep.
DrainStep(r) ==
  \/ StartNotified(r)
  \/ QueueSelected(r)
  \/ QueueResolved(r)
  \/ QueueUpdated(r)
  \/ QueueMarked(r)
  \/ Listed(r)
  \/ ReportNotified(r)
  \/ ErrorNotified(r)

NextOverlap ==
  \/ UpdateUrls(env.SECRET_KEY)
  \/ \E c \in Cmds : ChatUpdate(c)
  \/ \E c \in Cmds : ChatRejected(c)
  \/ \E c \in Cmds : ChatStep(c)
  \/ \E r \in Runs : DrainStep(r)

SpecOverlap == InitOverlap /\ [][NextOverlap]_vars

(* ------------------------------------------------------------------ *)
(* The chat trigger alone, /update commands arriving at any time      *)
(* ------------------------------------------------------------------ *)

NextChat ==
  \/ \E c \in Cmds : ChatUpdate(c)
  \/ \E c \in Cmds : ChatRejected(c)
  \/ \E c \in Cmds : ChatStep(c)
  \/ \E r \in Runs : DrainStep(r)

\* Every sendMessage of the handler returns (it catches its own errors,
\* lines 10-20), and every awaited operation of a run returns.
SpecChat ==
  /\ InitOverlap
  /\ [][NextChat]_vars
  /\ \A c \in Cmds : WF_vars(ChatStep(c))
  /\ \A r \in Runs : WF_vars(DrainStep(r))

(* ------------------------------------------------------------------ *)
(* The Deferred-Work Store under an arbitrary caller                  *)
(* ------------------------------------------------------------------ *)

\* The limits the harness passes to the select.
StoreLimits == 0..MAX_API_CALLS

StoreMessages == {Null, "Database update failed", "Video not found"}

\* A call of addToQueue for a row of one of the tables.
StoreAddToQueue ==
  /\ store.ops < MaxStoreOps
  /\ \E tableName \in {"episodes", "movies"}, outcome \in {"ok", "error"} :
       LET v == tables[tableName][1]
           a == addToQueue(queue, clock, tableName, v.id, v[VideoIdColumn(tableName)],
                           v[VideoUrlColumn(tableName)], v.title, outcome)
       IN /\ StoreOutcome(outcome)
          /\ queue' = a.queue
          /\ clock' = a.clock
          /\ store' = [op |-> "addToQueue", limit |-> 0, rows |-> <<>>, ops |-> store.ops + 1]
  /\ UNCHANGED <<stats, tables, run, runsStarted, diag, diagStarted, diagSince, probe, resolver, frontVars>>

\* The select of processQueue with a limit of the caller's choice.
StoreDrain ==
  /\ store.ops < MaxStoreOps
  /\ \E limit \in StoreLimits :
       store' = [op |-> "drain", limit |-> limit, rows |-> SelectPending(queue, limit),
                 ops |-> store.ops + 1]
  /\ UNCHANGED <<faults, stats, queue, clock, tables, run, runsStarted, diag, diagStarted, diagSince, probe, resolver, frontVars>>

\* A call of markQueueProcessed on a task of the table.
StoreMarkProcessed ==
  /\ store.ops < MaxStoreOps
  /\ \E queueId \in 1..Len(queue), status \in Terminal, errorMsg \in StoreMessages,
        outcome \in {"ok", "error"} :
       LET m == markQueueProcessed(queue, clock, queueId, status, errorMsg, outcome)
       IN /\ StoreOutcome(outcome)
          /\ queue' = m.queue
          /\ clock' = m.clock
          /\ store' = [op |-> "markQueueProcessed", limit |-> 0, rows |-> <<>>,
                       ops |-> store.ops + 1]
  /\ UNCHANGED <<stats, tables, run, runsStarted, diag, diagStarted, diagSince, probe, resolver, frontVars>>

StoreNext == StoreAddToQueue \/ StoreDrain \/ StoreMarkProcessed

SpecStore == Init /\ [][StoreNext]_vars

(* ------------------------------------------------------------------ *)
(* The Validity Prober under an arbitrary caller                      *)
(* ------------------------------------------------------------------ *)

ProbeUrls == {Null, "", "NULL", "cdn_old", "cdn_new"}

\* isUrlValid(url) is called: it returns at line 268, or sends its request.
ProbeCall ==
  /\ probe.pc # "head"
  /\ probe.calls < MaxProbeCalls
  /\ \E url \in ProbeUrls :
       probe' = [ url |-> url,
                  pc |-> IF ProbeRequests(url) = 0 THEN "returned" ELSE "head",
                  requests |-> ProbeRequests(url),
                  outcome |-> "none",
                  returned |-> isUrlValid(url, "none"),
                  calls |-> probe.calls + 1,
                  sent |-> probe.sent + ProbeRequests(url) ]
  /\ UNCHANGED <<faults, stats, queue, clock, tables, run, runsStarted, diag, diagStarted, diagSince, store, resolver, frontVars>>

\* The network answers the request of isUrlValid.
ProbeAnswered ==
  /\ probe.pc = "head"
  /\ \E outcome \in HeadOutcomes :
       probe' = [probe EXCEPT !.pc = "returned", !.outcome = outcome,
                              !.returned = isUrlValid(probe.url, outcome)]
  /\ UNCHANGED <<faults, stats, queue, clock, tables, run, runsStarted, diag, diagStarted, diagSince, store, resolver, frontVars>>

ProbeNext == ProbeCall \/ ProbeAnswered

SpecProbe == Init /\ [][ProbeNext]_vars

(* ------------------------------------------------------------------ *)
(* The Source Resolver under an arbitrary caller                      *)
(* ------------------------------------------------------------------ *)

\* getFacebookVideoUrl(videoId) is called: the request of line 284 is sent.
ResolverCall ==
  /\ resolver.pc # "get"
  /\ resolver.calls < MaxResolverCalls
  /\ resolver' = [resolver EXCEPT !.pc = "get", !.calls = @ + 1]
  /\ UNCHANGED <<faults, stats, queue, clock, tables, run, runsStarted, diag, diagStarted,
                 diagSince, store, probe, frontVars>>

\* The Graph API answers, or the request fails: lines 292-323.
ResolverAnswered ==
  /\ resolver.pc = "get"
  /\ \E resp \in ProviderResponses :
       LET g == getFacebookVideoUrl(resp, stats)
       IN /\ resolver' = [resolver EXCEPT !.pc = "returned", !.resp = resp,
                                          !.result = g.result]
          /\ stats' = g.stats
  /\ UNCHANGED <<faults, queue, clock, tables, run, runsStarted, diag, diagStarted,
                 diagSince, store, probe, frontVars>>

ResolverNext == ResolverCall \/ ResolverAnswered

SpecResolver == Init /\ [][ResolverNext]_vars

(* ------------------------------------------------------------------ *)
(* Claims                                                             *)
(* ------------------------------------------------------------------ *)

\* C1: with at most one run active, stats.apiCallsUsed never exceeds
\* MAX_API_CALLS, the calls of the drain phase, of the sweep phase and of
\* the single-item diagnostic counted alike.
C1_BudgetCeiling ==
  Cardinality(ActiveRuns) <= 1 => stats.apiCallsUsed <= MAX_API_CALLS

\* C3: a task's status changes only from pending to completed or failed;
\* a terminal task never changes status again, and a markQueueProcessed
\* call on a terminal task leaves its row as it is.
C3_TaskTransitions ==
  [][\A n \in 1..Len(queue) :
       /\ queue[n].status = "pending" => queue'[n].status \in {"pending"} \cup Terminal
       /\ queue[n].status \in Terminal => queue'[n] = queue[n]]_vars

\* C5: the drain returns only pending tasks, at most `limit` of them, in
\* ascending creation order, and they are the oldest pending ones: every
\* pending task it leaves out is no older than any task it returns, and it
\* leaves one out only when it returns `limit` tasks.
C5_DrainOldestPending ==
  store.op = "drain" =>
    LET rows == store.rows
        returned == {rows[k].id : k \in 1..Len(rows)}
    IN /\ \A k \in 1..Len(rows) :
            /\ rows[k].id \in 1..Len(queue)
            /\ queue[rows[k].id] = rows[k]
            /\ rows[k].status = "pending"
       /\ Len(rows) <= store.limit
       /\ \A k, l \in 1..Len(rows) : k < l => rows[k].created_at < rows[l].created_at
       /\ \A n \in 1..Len(queue) :
            (queue[n].status = "pending" /\ n \notin returned) =>
              /\ Len(rows) = store.limit
              /\ \A k \in 1..Len(rows) : rows[k].created_at < queue[n].created_at

\* A drain that returns as many tasks as its limit allows, skips a terminal
\* task older than a task it returns, and leaves a pending task out.
C5_Witness ==
  /\ store.op = "drain"
  /\ store.limit >= 1
  /\ Len(store.rows) = store.limit
  /\ \E n \in 1..Len(queue) : queue[n].status = "pending" /\ n > store.rows[Len(store.rows)].id
  /\ \E n \in 1..Len(queue) : queue[n].status \in Terminal /\ n < store.rows[Len(store.rows)].id

\* C6: every return of getFacebookVideoUrl, to the drain phase, to the
\* sweep phase or to the diagnostic, adds exactly one to stats.apiCallsUsed.
C6_ResolveCountsOnce ==
  [][/\ \A r \in Runs :
          (run[r].pc \in {"q_resolve", "f_resolve"} /\ run'[r] # run[r]) =>
            stats'.apiCallsUsed = stats.apiCallsUsed + 1
     /\ diag' < diag => stats'.apiCallsUsed = stats.apiCallsUsed + 1]_vars

\* A run holds the result of a call that failed at the transport level, and
\* the call was counted.
C6_Witness ==
  \E r \in Runs :
    /\ run[r].result.error = "network_error"
    /\ run[r].pc \in {"q_mark", "f_probe", "f_list", "f_enqueue", "report_notify"}
    /\ stats.apiCallsUsed >= 1

\* C10: isUrlValid returns invalid without a request for a null, empty or
\* 'NULL' url; for any other url it sends one request and returns valid
\* exactly when the answer is status 200; it never throws.
C10_Probe ==
  /\ probe.pc = "head" => probe.url \notin {Null, "", "NULL"} /\ probe.requests = 1
  /\ probe.pc = "returned" =>
       /\ ~probe.returned.threw
       /\ probe.url \in {Null, "", "NULL"} =>
            ~probe.returned.value /\ probe.requests = 0 /\ probe.outcome = "none"
       /\ probe.url \notin {Null, "", "NULL"} =>
            /\ probe.requests = 1
            /\ probe.returned.value <=> probe.outcome = "200"

\* isUrlValid('NULL') has returned without a request, after an earlier call
\* that sent one.
C10_Witness ==
  /\ probe.pc = "returned"
  /\ probe.url = "NULL"
  /\ probe.calls >= 2
  /\ probe.sent = 1

\* Eligible records of both kinds (the rows the listings return).
EligibleRecords == NumEpisodes + NumMovies

\* Run r has built its report and awaits its delivery.
AtReport(r) == run[r].pc = "report_notify"

\* The scenario of C2 at the report of run r: no task was pending at Reset,
\* no record probed valid, no addToQueue returned false, and there are more
\* eligible records than the ceiling.
C2_Scenario(r) ==
  /\ AtReport(r)
  /\ run[r].startPending = 0
  /\ stats.alreadyValid = 0
  /\ ~run[r].enqueueFailed
  /\ EligibleRecords > MAX_API_CALLS

\* What C2 promises: MAX_API_CALLS records resolved, the other eligible
\* records enqueued as pending tasks, and stats.queued equal to their number.
C2_Outcome(r) ==
  /\ stats.totalChecked - stats.alreadyValid = MAX_API_CALLS
  /\ stats.updated + stats.failed = MAX_API_CALLS
  /\ Cardinality(PendingRows(queue)) = EligibleRecords - MAX_API_CALLS
  /\ stats.queued = EligibleRecords - MAX_API_CALLS
  /\ run[r].report.queued = EligibleRecords - MAX_API_CALLS

Kept == 1..Len(queue)

\* A terminal task keeps its row as it is.
TerminalFrozen == \A n \in Kept : queue[n].status \in Terminal => queue'[n] = queue[n]

\* The task a run has in hand in the drain phase is pending in the store.
InHandPending ==
  \A r \in Runs :
    run[r].pc \in {"q_resolve", "q_update", "q_mark"} =>
      /\ run[r].q \in 1..Len(run[r].queueItems)
      /\ queue[run[r].queueItems[run[r].q].id].status = "pending"

\* The select of the drain returns no terminal task.
DrainSkipsTerminal ==
  \A r \in Runs :
    (run[r].pc = "q_select" /\ run'[r] # run[r]) =>
      \A k \in 1..Len(run'[r].queueItems) :
        queue[run'[r].queueItems[k].id].status = "pending"

\* No step creates a task for a record that has a terminal task.
NoTaskForTerminalRecord ==
  \A m \in (Len(queue) + 1)..Len(queue') :
    \A n \in Kept :
      queue[n].status \in Terminal =>
        ~(queue'[m].table_name = queue[n].table_name /\ queue'[m].row_id = queue[n].row_id)

\* C4 as stated: a terminal task is never returned by the drain, resolved or
\* marked again, and no run creates a new pending task for its record.
C4_Original ==
  [][TerminalFrozen /\ DrainSkipsTerminal /\ InHandPending' /\ NoTaskForTerminalRecord]_vars

\* C4 amended: a terminal task is never returned by a drain, a run that
\* starts after the task became terminal never resolves or marks it and
\* leaves its row as it is; the sweep of a later run may still create a new
\* pending task for the same record.
C4_TerminalIsFinal ==
  [][TerminalFrozen /\ DrainSkipsTerminal /\ InHandPending']_vars

\* A terminal task and, created after it was processed, a pending task for
\* the same record: the later sweep re-enqueued the record and the terminal
\* row is as the drain left it.
C4_Witness ==
  \E n, m \in 1..Len(queue) :
    /\ queue[n].status \in Terminal
    /\ queue[m].status = "pending"
    /\ queue[m].created_at > queue[n].processed_at
    /\ queue[m].table_name = queue[n].table_name
    /\ queue[m].row_id = queue[n].row_id
    /\ \E r \in Runs : run[r].pc = "q_resolve" /\ run[r].queueItems[run[r].q].id = m

(* C7 *)

\* The drain finishes an item whose resolve succeeded and whose apply
\* returned false.
DrainApplyFailed(r) ==
  /\ run[r].pc = "q_mark"
  /\ run[r].result.success
  /\ ~run[r].updated
  /\ run'[r] # run[r]

\* The sweep finishes a record whose resolve succeeded and whose apply
\* returned false.
SweepApplyFailed(r) ==
  /\ run[r].pc = "f_update"
  /\ run'[r] # run[r]
  /\ ~run'[r].updated

CountedFailedNotUpdated ==
  /\ stats'.failed = stats.failed + 1
  /\ stats'.updated = stats.updated
  /\ stats'.episodesUpdated = stats.episodesUpdated
  /\ stats'.moviesUpdated = stats.moviesUpdated

InHand(r) == run[r].queueItems[run[r].q]

MarkedFailed(row, message) ==
  /\ row.status = "failed"
  /\ row.error_message = message

\* C7 as stated: after a successful resolve whose apply returns false the
\* item counts as failed, not as updated, and in the drain phase the task
\* is failed with message "Database update failed", not pending.
C7_Original ==
  [][\A r \in Runs :
       /\ DrainApplyFailed(r) =>
            /\ CountedFailedNotUpdated
            /\ MarkedFailed(queue'[InHand(r).id], "Database update failed")
       /\ SweepApplyFailed(r) => CountedFailedNotUpdated]_vars

\* C7 amended: the same, except that the task is failed with that message
\* only when the write of markQueueProcessed is applied; when the store
\* refuses that write too the task stays pending, its row untouched.
C7_ApplyFailure ==
  [][\A r \in Runs :
       /\ DrainApplyFailed(r) =>
            /\ CountedFailedNotUpdated
            /\ IF clock' = clock
                 THEN queue' = queue
                 ELSE /\ MarkedFailed(queue'[InHand(r).id], "Database update failed")
                      /\ queue'[InHand(r).id].processed_at = clock
                      /\ \A n \in Kept : n # InHand(r).id => queue'[n] = queue[n]
       /\ SweepApplyFailed(r) => CountedFailedNotUpdated]_vars

\* A task failed with "Database update failed" and counted as failed, in a
\* run that updated nothing.
C7_Witness ==
  /\ \E n \in 1..Len(queue) : MarkedFailed(queue[n], "Database update failed")
  /\ stats.failed = 1
  /\ stats.updated = 0
  /\ \E r \in Runs : run[r].pc \notin {"idle", "q_mark"} /\ Len(run[r].queueItems) >= 1

(* C8 *)

\* The drain finishes an item whose resolve failed.
DrainResolveFailed(r) ==
  /\ run[r].pc = "q_mark"
  /\ ~run[r].result.success
  /\ run'[r] # run[r]

\* The sweep gets a failed resolve for the record in hand.
SweepResolveFailed(r) ==
  /\ run[r].pc = "f_resolve"
  /\ run'[r] # run[r]
  /\ ~run'[r].result.success

BucketNames == {"notFound", "permissionDenied", "apiError"}

BucketOfKind(kind) ==
  CASE kind = "not_found" -> "notFound"
    [] kind = "permission_denied" -> "permissionDenied"
    [] OTHER -> "apiError"

\* failed is one more, updated is the same, and the bucket of the failure
\* kind has the one new entry at its end, the other buckets are unchanged.
FailureRecorded(kind, entry) ==
  /\ stats'.failed = stats.failed + 1
  /\ stats'.updated = stats.updated
  /\ stats'.failures[BucketOfKind(kind)] = Append(stats.failures[BucketOfKind(kind)], entry)
  /\ \A b \in BucketNames \ {BucketOfKind(kind)} : stats'.failures[b] = stats.failures[b]

SweepInHand(r) == run[r].videos[run[r].i]

SweepInHandId(r) == SweepInHand(r)[VideoIdColumn(TableNames[run[r].t])]

\* The report of a run whose one resolver call, made for one expired
\* record, failed with not_found.
OneNotFound(r) ==
  /\ AtReport(r)
  /\ diagSince = 0
  /\ stats.apiCallsUsed = 1
  /\ ~run[r].result.success
  /\ run[r].result.error = "not_found"

OneNotFoundReported(r) ==
  /\ stats.failed = 1
  /\ stats.updated = 0
  /\ Len(stats.failures.notFound) = 1
  /\ stats.failures.permissionDenied = <<>>
  /\ stats.failures.apiError = <<>>
  /\ run[r].report.failed = 1
  /\ run[r].report.updated = 0

\* C8 as stated: every resolver failure adds one to failed, leaves updated
\* alone and appends one entry with the item's external id and title to the
\* bucket of its kind; a run with one not_found failure reports failed = 1,
\* updated = 0 and one entry in the not-found bucket.
C8_Original ==
  /\ [][\A r \in Runs :
          /\ DrainResolveFailed(r) =>
               FailureRecorded(run[r].result.error,
                               [id |-> InHand(r).facebook_video_id,
                                title |-> InHand(r).video_title])
          /\ SweepResolveFailed(r) =>
               FailureRecorded(run'[r].result.error,
                               [id |-> SweepInHandId(r), title |-> SweepInHand(r).title])]_vars
  /\ [](\A r \in Runs : OneNotFound(r) => OneNotFoundReported(r))

\* C8 amended: the same, except that in the drain phase the entry of a task
\* whose title is null or empty carries the title 'Unknown'.
C8_ResolverFailure ==
  /\ [][\A r \in Runs :
          /\ DrainResolveFailed(r) =>
               FailureRecorded(run[r].result.error,
                               [id |-> InHand(r).facebook_video_id,
                                title |-> IF InHand(r).video_title \in {Null, ""}
                                            THEN "Unknown" ELSE InHand(r).video_title])
          /\ SweepResolveFailed(r) =>
               FailureRecorded(run'[r].result.error,
                               [id |-> SweepInHandId(r), title |-> SweepInHand(r).title])]_vars
  /\ [](\A r \in Runs : OneNotFound(r) => OneNotFoundReported(r))

\* The report of a run whose one resolver call failed with not_found for a
\* record of the sweep, named by its title in the not-found bucket.
C8_Witness ==
  \E r \in Runs :
    /\ OneNotFound(r)
    /\ stats.totalChecked - stats.alreadyValid = 1
    /\ stats.failures.notFound[1] =
         [id |-> InitEpisodes[1].facebook_video_id, title |-> InitEpisodes[1].title]

(* C9 *)

\* The closing line of a report, from the numbers the report prints.
ClosingByPrecedence(rep) ==
  CASE rep.queued = 0 /\ rep.failed = 0 /\ rep.updated > 0 -> "all_updated"
    [] ~(rep.queued = 0 /\ rep.failed = 0 /\ rep.updated > 0)
       /\ rep.queued = 0 /\ rep.totalChecked = rep.alreadyValid -> "no_updates_needed"
    [] ~(rep.queued = 0 /\ rep.failed = 0 /\ rep.updated > 0)
       /\ ~(rep.queued = 0 /\ rep.totalChecked = rep.alreadyValid)
       /\ rep.queued > 0 -> "queued_for_next_run"
    [] OTHER -> "none"

\* No task was pending at Reset and every eligible record probed valid.
NothingToDo(r) ==
  /\ run[r].startPending = 0
  /\ stats.alreadyValid = EligibleRecords

\* C9: the report prints the final statistics and its closing line follows
\* the precedence all-updated, all-still-valid, queued, none; a run with no
\* pending task and every fresh record valid closes with "no updates
\* needed" and reports updated, episodesUpdated and moviesUpdated as zero.
C9_ClosingLine ==
  \A r \in Runs :
    AtReport(r) =>
      /\ run[r].report.totalChecked = stats.totalChecked
      /\ run[r].report.alreadyValid = stats.alreadyValid
      /\ run[r].report.updated = stats.updated
      /\ run[r].report.failed = stats.failed
      /\ run[r].report.queued = stats.queued
      /\ run[r].report.closing = ClosingByPrecedence(run[r].report)
      /\ NothingToDo(r) =>
           /\ run[r].report.closing = "no_updates_needed"
           /\ run[r].report.updated = 0
           /\ run[r].report.episodesUpdated = 0
           /\ run[r].report.moviesUpdated = 0

\* A report of a run that found no pending task and every record valid.
C9_Witness ==
  \E r \in Runs : AtReport(r) /\ NothingToDo(r) /\ run[r].report.closing = "no_updates_needed"

(* C12 *)

\* A step that handles a POST /update-urls request.
UpdateUrlsHandled == http'.requests = http.requests + 1

\* The runs a step starts.
Started == {r \in Runs : run[r].pc = "idle" /\ run'[r].pc # "idle"}

\* C12: a POST /update-urls whose x-secret-key differs from SECRET_KEY gets
\* 401 and starts no run; one whose header matches gets 'started' and
\* starts exactly one run, which has done nothing but its Reset when the
\* response is out; nothing the run does later changes that response.
C12_HttpTrigger ==
  [][/\ UpdateUrlsHandled =>
          IF http'.header # env.SECRET_KEY
            THEN /\ http'.status = "401"
                 /\ Started = {}
                 /\ UNCHANGED <<run, runsStarted, stats, queue, tables>>
            ELSE /\ http'.status = "started"
                 /\ Cardinality(Started) = 1
                 /\ runsStarted' = runsStarted + 1
                 /\ \A r \in Started : http'.run = r /\ run'[r].pc = "start_notify"
                 /\ \A r \in Runs \ Started : run'[r] = run[r]
                 /\ UNCHANGED <<queue, tables>>
     /\ ~UpdateUrlsHandled => http' = http]_vars

\* The second request, with a wrong key, got 401 after the first, with the
\* right key, started a run that has ended since.
C12_Witness ==
  /\ env.SECRET_KEY = "s3cret"
  /\ http.requests = 2
  /\ http.header = "guess"
  /\ http.status = "401"
  /\ runsStarted = 1
  /\ \A c \in Cmds : chat[c].pc = "none"
  /\ ActiveRuns = {}
  /\ faults = MaxFaults

(* C13 *)

\* sendTelegram returns to run r, which awaited it at position pc.
PushReturns(r, pc) == run[r].pc = pc /\ run'[r] # run[r]

\* C13: whatever happens to a push (sent, refused by Telegram, or skipped
\* because Telegram is not configured), the run goes on as after a push
\* that was sent: from the run-start push to the drain, from the report
\* and from the error push to the end of the run, with the statistics, the
\* task store and the record store untouched.
C13_PushNeverFailsRun ==
  [][\A r \in Runs :
       /\ PushReturns(r, "start_notify") =>
            /\ run'[r] = [run[r] EXCEPT !.pc = "q_select"]
            /\ UNCHANGED <<stats, queue, tables>>
       /\ PushReturns(r, "report_notify") =>
            /\ run'[r] = IdleRun
            /\ UNCHANGED <<stats, queue, tables>>
            /\ \A c \in Awaiting(r) : chat'[c].pc = "done_msg"
       /\ PushReturns(r, "error_notify") =>
            /\ run'[r] = IdleRun
            /\ UNCHANGED <<stats, queue, tables>>
            /\ \A c \in Awaiting(r) : chat'[c].pc = "done_msg"]_vars

\* Telegram refused the run-start push of the first run, and the run is at
\* the select of its drain.
C13_Witness ==
  /\ env.telegram
  /\ runsStarted = 1
  /\ run[1].pc = "q_select"
  /\ faults = MaxFaults

(* C15 *)

\* An exception escapes the drain or the sweep of run r: the run enters
\* the catch of processUrlUpdates.
Escapes(r) == run[r].pc # "error_notify" /\ run'[r].pc = "error_notify"

\* C15: an exception that escapes the drain or the sweep takes the run to
\* the error notification with the statistics as they were and no report
\* built; after that notification the run ends without a report and
\* processUrlUpdates resolves, so that an /update command that awaits it
\* goes on to its "completed" reply and records success; the error branch
\* of handleUpdateCommand is never reached.
C15_TopLevelCatch ==
  /\ [][\A r \in Runs :
          /\ Escapes(r) =>
               /\ run[r].pc \in {"q_select", "f_list"}
               /\ stats' = stats
               /\ run'[r].report = NoReport
               /\ UNCHANGED <<queue, tables>>
          /\ (run[r].pc = "error_notify" /\ run'[r] # run[r]) =>
               /\ run'[r] = IdleRun
               /\ stats' = stats
               /\ \A c \in Awaiting(r) :
                    /\ chat'[c].pc = "done_msg"
                    /\ lastUpdateInfo' = [set |-> TRUE, success |-> TRUE]]_vars
  /\ [](/\ \A c \in Cmds : chat[c].pc # "error_msg"
        /\ lastUpdateInfo.set => lastUpdateInfo.success)

\* The listing of the movies threw after the episodes were checked, in a
\* run started by an /update command: the run awaits its error
\* notification with the statistics of the episodes.
C15_Witness ==
  \E r \in Runs :
    /\ run[r].pc = "error_notify"
    /\ Awaiting(r) # {}
    /\ run[r].t = 2
    /\ stats.totalChecked >= 1
    /\ stats.apiCallsUsed >= 1

(* C11 *)

\* handleUpdateCommand takes up /update command c.
Arrives(c) == chat[c].pc = "none" /\ chat'[c].pc # "none"

\* C11: an /update command that arrives while a run is active, whichever
\* trigger started that run, gets the "already running" reply, and the
\* chat trigger starts a run only when no run is active.
C11_ChatBusyCheck ==
  [][\A c \in Cmds :
       /\ (Arrives(c) /\ ActiveRuns # {}) => chat'[c].pc = "reject_msg"
       /\ (chat[c].pc = "start_msg" /\ chat'[c].pc = "running") => ActiveRuns = {}]_vars

(* C14 *)

\* Run r takes a step from position pc.
StepsFrom(r, pc) == run[r].pc = pc /\ run'[r] # run[r]

\* The drain goes on after the item in hand: to the next task, or out of
\* the loop when there is none or the budget is spent.
DrainGoesOn(r) ==
  IF run[r].q < Len(run[r].queueItems) /\ stats'.apiCallsUsed < MAX_API_CALLS
    THEN run'[r].pc = "q_resolve" /\ run'[r].q = run[r].q + 1
    ELSE run'[r].pc \in {"f_list", "report_notify"}

\* The sweep goes on after the record in hand: to the next record of the
\* listing, to the next table, or to the report.
SweepGoesOn(r) ==
  /\ run'[r].pc \in {"f_probe", "f_resolve", "f_enqueue", "f_list", "report_notify"}
  /\ run'[r].pc \in {"f_probe", "f_resolve", "f_enqueue"} =>
       run'[r].t = run[r].t /\ run'[r].i = run[r].i + 1

\* The enqueue loop goes on after videos[j].
EnqueueGoesOn(r) ==
  IF run[r].j < Len(run[r].videos)
    THEN run'[r].pc = "f_enqueue" /\ run'[r].j = run[r].j + 1
    ELSE run'[r].pc \in {"f_list", "report_notify"}

\* C14: a resolver failure, a record-update failure, an enqueue failure or
\* a failed markQueueProcessed write on one item never takes the run to its
\* top-level catch: the run marks and counts the item and goes on with the
\* next task or record in order, or leaves the loop for the next phase.
C14_ItemFailuresDoNotAbort ==
  [][\A r \in Runs :
       /\ (StepsFrom(r, "q_resolve") /\ ~run'[r].result.success) =>
            run'[r].pc = "q_mark" /\ run'[r].q = run[r].q
       /\ (StepsFrom(r, "q_update") /\ ~run'[r].updated) =>
            run'[r].pc = "q_mark" /\ run'[r].q = run[r].q
       /\ StepsFrom(r, "q_mark") => DrainGoesOn(r)
       /\ (StepsFrom(r, "f_resolve") /\ ~run'[r].result.success) => SweepGoesOn(r)
       /\ (StepsFrom(r, "f_update") /\ ~run'[r].updated) => SweepGoesOn(r)
       /\ (StepsFrom(r, "f_enqueue") /\ queue' = queue) => EnqueueGoesOn(r)
       /\ Escapes(r) => run[r].pc \in {"q_select", "f_list"}]_vars

\* A run at its report after a task that failed to resolve and whose
\* markQueueProcessed write was refused, and after an enqueue that failed.
C14_Witness ==
  \E r \in Runs :
    /\ AtReport(r)
    /\ run[r].startPending >= 1
    /\ Len(stats.failures.notFound) + Len(stats.failures.apiError) >= 1
    /\ run[r].enqueueFailed
    /\ faults = MaxFaults
    /\ \A n \in 1..Len(queue) : queue[n].status = "pending"

(* C16 *)

\* videos[i] of table t is the record in hand of the sweep of run record rn.
RecordInHand(rn, t, i) == rn.t = t /\ rn.i = i

\* The probe of the record in hand of run r returned valid: the sweep does
\* not go on to resolve that record.
ProbedValid(r) ==
  /\ StepsFrom(r, "f_probe")
  /\ ~(run'[r].pc = "f_resolve" /\ RecordInHand(run'[r], run[r].t, run[r].i))

\* The step of run r takes the next record of the listing in hand and
\* counts it as checked.
NextRecordCounted(r) ==
  /\ run'[r].pc \in {"f_probe", "f_resolve"}
  /\ RecordInHand(run'[r], run[r].t, run[r].i + 1)

\* Run r starts to resolve a record of the sweep: its probe returned not
\* valid, or isUrlValid returned false for its url without a request.
ResolvesInvalid(r) ==
  \/ run[r].pc = "f_probe" /\ RecordInHand(run'[r], run[r].t, run[r].i)
  \/ ProbeShortCircuit(
       run'[r].videos[run'[r].i][VideoUrlColumn(TableNames[run'[r].t])])

\* The statistics other than totalChecked and alreadyValid.
OtherCounters(st) ==
  <<st.apiCallsUsed, st.updated, st.failed, st.queued, st.failures>>

Phase(pc) ==
  CASE pc = "idle" -> "none"
    [] pc = "start_notify" -> "reset"
    [] pc \in {"q_select", "q_resolve", "q_update", "q_mark"} -> "drain"
    [] pc \in {"f_list", "f_enqueue", "f_probe", "f_resolve", "f_update"} -> "sweep"
    [] pc = "report_notify" -> "report"
    [] OTHER -> "error"

\* The phase that follows each phase of a run that does not fail.
PhaseAfter(phase) ==
  CASE phase = "none" -> "reset"
    [] phase = "reset" -> "drain"
    [] phase = "drain" -> "sweep"
    [] phase = "sweep" -> "report"
    [] OTHER -> "none"

\* C17: a run goes through Reset, Drain, Sweep and Report in that order
\* and skips none: whenever a run changes phase without failing, the new
\* phase is the one that follows the old; in particular a run leaves the
\* drain only into the sweep, also when the budget is already spent.
C17_PhasesInOrder ==
  [][\A r \in Runs :
       (Phase(run'[r].pc) # Phase(run[r].pc) /\ Phase(run'[r].pc) # "error"
          /\ Phase(run[r].pc) # "error")
         => Phase(run'[r].pc) = PhaseAfter(Phase(run[r].pc))]_vars

(* C18 *)

\* Run r ends on this step.
Ends(r) == run[r].pc # "idle" /\ run'[r].pc = "idle"

\* Every started run terminates, and it ends only on the return of the
\* notification of its report.
C18_Original ==
  /\ (ActiveRuns # {}) ~> (ActiveRuns = {})
  /\ [][\A r \in Runs : Ends(r) => run[r].pc = "report_notify"]_vars

\* C18: every started run terminates when each awaited operation returns:
\* with one run at a time, whenever a run is active there is eventually
\* none active. It ends on the return of
\* sendTelegram for its report, which it built before, or, when an
\* exception escaped the drain or the sweep, on the return of sendTelegram
\* for the error notification, with no report built.
C18_RunTerminates ==
  /\ (ActiveRuns # {}) ~> (ActiveRuns = {})
  /\ [][\A r \in Runs :
          Ends(r) =>
            \/ run[r].pc = "report_notify" /\ run[r].report # NoReport
            \/ run[r].pc = "error_notify" /\ run[r].report = NoReport]_vars

\* A run that drained a task with a failure, swept both tables with an
\* update and a failure, and now awaits the notification of its report.
C18_Witness ==
  \E r \in Runs :
    /\ AtReport(r)
    /\ run[r].startPending >= 1
    /\ stats.updated >= 1
    /\ stats.failed >= 1
    /\ stats.totalChecked >= 1

(* C19 *)

\* The tasks the drain of run r has reached: queueItems[1..q].
Reached(r) == 1..run[r].q

\* The tasks the select of run r returned and its drain has not reached.
NotReached(r) == (run[r].q + 1)..Len(run[r].queueItems)

\* The selection of run r is in ascending creation order, and a task that
\* is pending and older than a selected one comes before it in the selection.
OldestFirst(r) ==
  LET items == run[r].queueItems
  IN /\ \A k \in 1..(Len(items) - 1) : items[k].created_at < items[k + 1].created_at
     /\ \A k \in 1..Len(items) : \A n \in 1..Len(queue) :
          (queue[n].status = "pending" /\ queue[n].created_at < items[k].created_at)
            => \E o \in 1..(k - 1) : items[o].id = queue[n].id

\* Every task of the selection the drain has not reached is in the queue as
\* it was selected: pending, no field changed.
NotReachedUntouched(r) ==
  \A k \in NotReached(r) :
    /\ run[r].queueItems[k].status = "pending"
    /\ \E n \in 1..Len(queue) : queue[n] = run[r].queueItems[k]

\* C19: the drain takes the pending tasks oldest first, one after the
\* other, and stops when the budget is spent: at every point of a run, and
\* so at its end, the tasks reached are a prefix of its selection, which is
\* in ascending creation order and leaves out no older pending task, and
\* every task not reached is still pending with all its fields unchanged.
C19_OldestFirst ==
  /\ [](\A r \in Runs :
          /\ run[r].q <= Len(run[r].queueItems)
          /\ OldestFirst(r)
          /\ NotReachedUntouched(r))
  /\ [][\A r \in Runs :
          /\ (run'[r].q # run[r].q /\ run'[r].pc # "idle") =>
               /\ run'[r].q = run[r].q + 1
               /\ run'[r].pc = "q_resolve"
               /\ stats'.apiCallsUsed < MAX_API_CALLS
          /\ (Phase(run[r].pc) = "drain" /\ Phase(run'[r].pc) = "drain"
                /\ run'[r] # run[r]) =>
               run'[r].queueItems = IF run[r].pc = "q_select"
                                      THEN SelectPending(queue, MAX_API_CALLS)
                                      ELSE run[r].queueItems
          /\ (Phase(run[r].pc) = "drain" /\ run'[r] # run[r]
                /\ stats'.apiCallsUsed >= MAX_API_CALLS) =>
               Phase(run'[r].pc) # "drain" \/ run'[r].q = run[r].q]_vars

\* A run whose drain stopped on the budget after the first of two selected
\* tasks: it awaits the notification of its report, the second task pending.
C19_Witness ==
  \E r \in Runs :
    /\ AtReport(r)
    /\ Len(run[r].queueItems) = 2
    /\ run[r].q = 1
    /\ stats.apiCallsUsed >= MAX_API_CALLS

(* C20 *)

\* The records the two listings return.
EligibleNow ==
  Len(ListVideos(tables, "episodes")) + Len(ListVideos(tables, "movies"))

\* C20: no eligible record is dropped because the budget ran out: when a
\* run reaches its report, with both listings answered and no addToQueue
\* refused, every eligible record of both tables was counted as checked by
\* this run or was enqueued by it.
C20_NoRecordDropped ==
  \A r \in Runs :
    (AtReport(r) /\ ~run[r].listFailed /\ ~run[r].enqueueFailed)
      => stats.totalChecked + stats.queued = EligibleNow

(* C21 *)

\* The five failure kinds of the resolver's contract ('rate_limit' is the
\* code's spelling of rate_limited).
FailureKinds == {"not_found", "permission_denied", "rate_limit", "api_error", "network_error"}

\* The kind a provider error code stands for; "none" for a code that stands
\* for no kind of its own.
KindOfCode(code) ==
  CASE code = 100 -> "not_found"
    [] code \in {200, 10} -> "permission_denied"
    [] code \in {4, 17} -> "rate_limit"
    [] OTHER -> "none"

\* The kind a message stands for by substring, in priority order.
KindOfMessage(message) ==
  IF Includes(message, "does not exist") THEN "not_found"
  ELSE IF Includes(message, "permission") THEN "permission_denied"
  ELSE IF Includes(message, "rate limit") THEN "rate_limit"
  ELSE "api_error"

\* C21: a failed resolve returns one of the five kinds; for a structured
\* provider error the kind is the one its code stands for, and the message
\* decides only when the code stands for none; a failure with no
\* structured provider response is network_error.
C21_Classification ==
  (resolver.pc = "returned" /\ ~resolver.result.success) =>
    /\ resolver.result.error \in FailureKinds
    /\ resolver.resp.kind = "err" =>
         resolver.result.error =
           IF KindOfCode(resolver.resp.code) # "none"
             THEN KindOfCode(resolver.resp.code)
             ELSE KindOfMessage(resolver.resp.message)
    /\ resolver.resp.kind = "net" => resolver.result.error = "network_error"

(* C22 *)

\* The table of the record updateVideoUrl is awaited for by run r.
ApplyTable(r) ==
  IF run[r].pc = "q_update" THEN run[r].queueItems[run[r].q].table_name
  ELSE TableNames[run[r].t]

\* The per-kind counters of statistics st.
PerKind(st) == <<st.episodesUpdated, st.moviesUpdated>>

\* C22: an apply that succeeds adds one to the counter of the record's
\* kind and to no other, an apply that fails adds to none, and nothing else
\* changes the per-kind counters but the Reset; with one run at a time, the
\* report carries episodesUpdated + moviesUpdated = updated.
C22_PerKindCounters ==
  /\ [](\A r \in Runs :
          AtReport(r) =>
            /\ stats.episodesUpdated + stats.moviesUpdated = stats.updated
            /\ run[r].report.episodesUpdated + run[r].report.moviesUpdated
                 = run[r].report.updated)
  /\ [][/\ \A r \in Runs :
            (StepsFrom(r, "q_update") \/ StepsFrom(r, "f_update")) =>
              PerKind(stats') =
                IF ~run'[r].updated THEN PerKind(stats)
                ELSE IF ApplyTable(r) = "episodes"
                  THEN <<stats.episodesUpdated + 1, stats.moviesUpdated>>
                  ELSE <<stats.episodesUpdated, stats.moviesUpdated + 1>>
        /\ PerKind(stats') # PerKind(stats) =>
              \/ \E r \in Runs : run[r].pc \in {"q_update", "f_update"} /\ run'[r].updated
              \/ \E r \in Runs : run[r].pc = "idle" /\ run'[r].pc = "start_notify"]_vars

\* A report after one movie was updated in the drain and one episode in
\* the sweep.
C22_Witness ==
  \E r \in Runs :
    /\ AtReport(r)
    /\ run[r].report.episodesUpdated = 1
    /\ run[r].report.moviesUpdated = 1
    /\ run[r].startPending >= 1

(* C23 *)

\* A POST /update-urls request is handled on this step.
Posted == http'.requests = http.requests + 1

\* C23: POST /update-urls has no busy check: a request with the right key
\* is accepted whether or not a run is active, and when one is active the
\* accepted request starts another run beside it, whose Reset replaces the
\* statistics, the API call counter included, with zeroes.
C23_HttpNoBusyCheck ==
  [][Posted =>
       /\ http'.status = "started" <=> http'.header = env.SECRET_KEY
       /\ http'.status = "started" =>
            /\ Cardinality(ActiveRuns') = Cardinality(ActiveRuns) + 1
            /\ \A r \in ActiveRuns : run'[r] = run[r]
            /\ stats' = ZeroStats]_vars

\* After two accepted requests two runs are active: the first awaits the
\* mark of the task whose resolve it counted, the second its run-start
\* notification, and the API call counter is back to zero.
C23_Witness ==
  /\ http.requests = 2
  /\ http.status = "started"
  /\ run[1].pc = "q_mark"
  /\ run[2].pc = "start_notify"
  /\ stats.apiCallsUsed = 0

(* C24 *)

\* The resolver calls run r made in its drain: one per task it reached.
DrainCalls(r) == run[r].q

\* C24: at the report of a run, with one run at a time and no diagnostic
\* call returned since the Reset, every resolver call was counted once as
\* updated or failed, and every record counted as checked was either
\* valid or resolved in the sweep:
\* updated + failed = apiCallsUsed and
\* totalChecked = alreadyValid + (apiCallsUsed - calls of the drain).
C24_CallsAccounted ==
  \A r \in Runs :
    (AtReport(r) /\ diagSince = 0) =>
      /\ stats.updated + stats.failed = stats.apiCallsUsed
      /\ stats.totalChecked = stats.alreadyValid + (stats.apiCallsUsed - DrainCalls(r))
      /\ run[r].report.updated + run[r].report.failed = run[r].report.apiCallsUsed

\* A report after one resolver call in the drain and one in the sweep, the
\* sweep having found a valid record too.
C24_Witness ==
  \E r \in Runs :
    /\ AtReport(r)
    /\ diagSince = 0
    /\ DrainCalls(r) = 1
    /\ stats.apiCallsUsed = 2
    /\ stats.alreadyValid >= 1
    /\ stats.totalChecked >= 2

(* C25 *)

\* Every read and write of the store succeeded so far and no diagnostic
\* call was made.
StoreSoundNoDiag == faults = 0 /\ diagStarted = 0

\* The sweep of run r begins: the drain is over and episodes is listed.
SweepBegins(r) == run[r].pc = "f_list" /\ run[r].t = 1

\* At most one pending task per (table_name, row_id).
OnePendingPerRecord ==
  \A n, m \in PendingRows(queue) :
    (queue[n].table_name = queue[m].table_name /\ queue[n].row_id = queue[m].row_id)
      => n = m

\* C25: with one run at a time, a store whose reads and writes succeed and
\* no diagnostic call, the sweep begins only when no pending task is left,
\* and the queue never holds two pending tasks of the same record.
C25_OnePendingTaskPerRecord ==
  StoreSoundNoDiag =>
    /\ \A r \in Runs : SweepBegins(r) => PendingRows(queue) = {}
    /\ OnePendingPerRecord

\* The second run begins its sweep after it drained the task the first
\* run had left pending.
C25_Witness ==
  \E r \in Runs :
    /\ StoreSoundNoDiag
    /\ runsStarted = 2
    /\ SweepBegins(r)
    /\ run[r].q = 1
    /\ run[r].startPending = 1

(* C26 *)

\* The drain of run r called the resolver for a task of record rowId of
\* table tableName.
ResolvedInDrain(r, tableName, rowId) ==
  \E k \in Reached(r) :
    /\ run[r].queueItems[k].table_name = tableName
    /\ run[r].queueItems[k].row_id = rowId

\* C26: a run calls the resolver at most once per record: the sweep never
\* awaits getFacebookVideoUrl for a record whose task the drain of the same
\* run has resolved.
C26_OneResolvePerRecord ==
  \A r \in Runs :
    run[r].pc = "f_resolve" =>
      ~ResolvedInDrain(r, TableNames[run[r].t], run[r].videos[run[r].i].id)

(* C27 *)

\* The runs it takes to reach task n: the pending tasks up to it in
\* creation order, MAX_API_CALLS of them per run.
RunsNeeded(n) ==
  LET ahead == {m \in PendingRows(queue) : queue[m].created_at <= queue[n].created_at}
  IN (Cardinality(ahead) + MAX_API_CALLS - 1) \div MAX_API_CALLS

\* Task n is pending between two runs, and the runs to come are enough to
\* reach it.
PendingWithRunsToCome(n) ==
  /\ n <= Len(queue)
  /\ queue[n].status = "pending"
  /\ ActiveRuns = {}
  /\ MaxRuns - runsStarted >= RunsNeeded(n)

\* Task n is completed or failed.
Processed(n) == n <= Len(queue) /\ queue[n].status \in Terminal

\* C27: with runs that repeat and a store that answers every read and
\* write, a task that is pending becomes completed or failed: each run
\* takes the MAX_API_CALLS oldest pending tasks, so a task is reached
\* after as many runs as there are batches of pending tasks up to it.
C27_NoTaskPendingForever ==
  \A n \in DOMAIN LeftoverQueue : PendingWithRunsToCome(n) ~> Processed(n)

\* The third task is still pending after the first run, which spent its
\* budget on the first two, and the second run is about to take it.
C27_Witness ==
  /\ runsStarted = 2
  /\ run[1].pc = "q_resolve"
  /\ Processed(1)
  /\ Processed(2)
  /\ queue[3].status = "pending"
  /\ run[1].queueItems[run[1].q].id = 3

(* C28 *)

\* The /update commands between line 89 (isProcessing = true) and the
\* finally of line 113: the "started" reply, the run, the closing reply.
InHandler == {c \in Cmds : chat[c].pc \in {"start_msg", "running", "done_msg", "error_msg"}}

====
